---- MODULE Spec2Model ----
(***************************************************************************)
(* Model of regex_helper: the pattern combinators, the match facade and    *)
(* the multiprocessing batch functions of src/src/regex_helper.py.         *)
(*                                                                         *)
(* A text is a sequence of one-character strings.  Pattern text is spliced *)
(* character by character exactly as the f-strings and joins of the source *)
(* do, and is then parsed and matched by the operators of the section      *)
(* "Regular expression engine", which follow Python's re module (a         *)
(* backtracking matcher: alternatives are tried in order).                 *)
(***************************************************************************)
EXTENDS Integers, Sequences, FiniteSets, TLC

(***************************************************************************)
(* Python values                                                           *)
(***************************************************************************)
\* A str object
Str(s) == [kind |-> "str", pattern |-> s, flags |-> {}]
\* A re.Pattern object, as built by re.compile(s, flags)
Compiled(s, fl) == [kind |-> "compiled", pattern |-> s, flags |-> fl]
\* An object that is neither a str nor a re.Pattern (None, an int, ...)
Other == [kind |-> "other", pattern |-> <<>>, flags |-> {}]

IGNORECASE == "IGNORECASE"

\* The outcome of a call: a returned value or a raised exception
Ok(v) == [ok |-> TRUE, val |-> v, err |-> "none"]
Raise(e) == [ok |-> FALSE, val |-> <<>>, err |-> e]

(***************************************************************************)
(* Regular expression engine (Python's re, for the syntax the repository   *)
(* composes: literals, |, (?:...), (?i:...), (...), (?=...), (?!...),      *)
(* \b \d \s \S \w, ., ^, $, and the quantifiers ? * + {m} {m,n} with their *)
(* lazy forms)                                                             *)
(***************************************************************************)
UpperLetters ==
  <<"A", "B", "C", "D", "E", "F", "G", "H", "I", "J", "K", "L", "M",
    "N", "O", "P", "Q", "R", "S", "T", "U", "V", "W", "X", "Y", "Z">>
LowerLetters ==
  <<"a", "b", "c", "d", "e", "f", "g", "h", "i", "j", "k", "l", "m",
    "n", "o", "p", "q", "r", "s", "t", "u", "v", "w", "x", "y", "z">>
UpperCase == {UpperLetters[k] : k \in 1..26}
LowerCase == {LowerLetters[k] : k \in 1..26}
DigitChars == <<"0", "1", "2", "3", "4", "5", "6", "7", "8", "9">>
Digits == {DigitChars[k] : k \in 1..10}
SpaceChars == {" ", "\n", "\t"}
WordChars == UpperCase \cup LowerCase \cup Digits \cup {"_"}
\* characters with a special meaning in pattern text
Special == {"(", ")", "|", "?", "*", "+", "\\", ".", "{", "}", "^", "$", "[", "]"}
\* the printable ASCII characters in code order, the backquote left out (for
\* ranges in [...])
Ascii ==
  <<" ", "!", "\"", "#", "$", "%", "&", "'", "(", ")", "*", "+", ",", "-", ".", "/">>
  \o DigitChars \o <<":", ";", "<", "=", ">", "?", "@">> \o UpperLetters
  \o <<"[", "\\", "]", "^", "_">> \o LowerLetters \o <<"{", "|", "}", "~">>
Ord(c) == CHOOSE k \in 1..Len(Ascii) : Ascii[k] = c

Lower(c) ==
  IF c \in UpperCase THEN LowerLetters[CHOOSE k \in 1..26 : UpperLetters[k] = c] ELSE c

MAXREPEAT == 1000

\* ---- parser: pattern text -> syntax tree --------------------------------
\* A parse result: ok, the node, the index of the next unread character and
\* the number of capturing groups opened so far.
PRes(ok, n, i, g) == [ok |-> ok, n |-> n, i |-> i, g |-> g]
PErr == PRes(FALSE, [t |-> "err"], 0, 0)

Lit(c) == [t |-> "lit", c |-> c]
Cls(k) == [t |-> "cls", k |-> k]
Cat(xs) == [t |-> "cat", xs |-> xs]
Alt(xs) == [t |-> "alt", xs |-> xs]
Grp(x, ic, cap) == [t |-> "grp", x |-> x, ic |-> ic, cap |-> cap]
Look(x, neg) == [t |-> "look", x |-> x, neg |-> neg]
\* a lookbehind (?<=...) or (?<!...) whose body is w characters wide
Behind(x, neg, w) == [t |-> "behind", x |-> x, neg |-> neg, w |-> w]
\* a character set [...] or [^...]: its characters and its classes (\d, \s, ...)
CharSet(neg, chars, classes) == [t |-> "set", neg |-> neg, chars |-> chars, classes |-> classes]
Rep(x, lo, hi, greedy) == [t |-> "rep", x |-> x, lo |-> lo, hi |-> hi, greedy |-> greedy]

RECURSIVE ParseAlt(_, _, _, _), ParseSeq(_, _, _, _), ParseAtom(_, _, _)

\* what opens at p[i] = "(": where the body starts, whether the group scopes
\* the ignore-case flag, and its capture number (0: non-capturing)
\* (look: "=" for a lookahead (?=...), "!" for a negative one, "<=" and "<!"
\* for the lookbehinds (?<=...) and (?<!...), "" otherwise)
GroupHeader(p, i, g) ==
  IF i + 1 <= Len(p) /\ p[i + 1] = "?" THEN
    IF i + 2 > Len(p)
      THEN [ok |-> FALSE, start |-> 0, ic |-> FALSE, cap |-> 0, g |-> g, look |-> ""]
    ELSE IF p[i + 2] = ":"
      THEN [ok |-> TRUE, start |-> i + 3, ic |-> FALSE, cap |-> 0, g |-> g, look |-> ""]
    ELSE IF p[i + 2] \in {"=", "!"}
      THEN [ok |-> TRUE, start |-> i + 3, ic |-> FALSE, cap |-> 0, g |-> g, look |-> p[i + 2]]
    ELSE IF p[i + 2] = "<" /\ i + 3 <= Len(p) /\ p[i + 3] \in {"=", "!"}
      THEN [ok |-> TRUE, start |-> i + 4, ic |-> FALSE, cap |-> 0, g |-> g,
            look |-> IF p[i + 3] = "=" THEN "<=" ELSE "<!"]
    ELSE IF p[i + 2] = "i" /\ i + 3 <= Len(p) /\ p[i + 3] = ":"
      THEN [ok |-> TRUE, start |-> i + 4, ic |-> TRUE, cap |-> 0, g |-> g, look |-> ""]
    ELSE [ok |-> FALSE, start |-> 0, ic |-> FALSE, cap |-> 0, g |-> g, look |-> ""]
  ELSE [ok |-> TRUE, start |-> i + 1, ic |-> FALSE, cap |-> g + 1, g |-> g + 1, look |-> ""]

RECURSIVE Width(_), WidthCat(_, _)
\* the least and the greatest number of characters a match of node n takes
Width(n) ==
  CASE n.t \in {"lit", "set"} -> <<1, 1>>
    [] n.t = "cls" -> IF n.k \in {"b", "^", "$"} THEN <<0, 0>> ELSE <<1, 1>>
    [] n.t = "cat" -> WidthCat(n.xs, Len(n.xs))
    [] n.t = "alt" ->
         <<CHOOSE v \in {Width(n.xs[k])[1] : k \in 1..Len(n.xs)} :
             \A k \in 1..Len(n.xs) : v <= Width(n.xs[k])[1],
           CHOOSE v \in {Width(n.xs[k])[2] : k \in 1..Len(n.xs)} :
             \A k \in 1..Len(n.xs) : v >= Width(n.xs[k])[2]>>
    [] n.t = "grp" -> Width(n.x)
    [] n.t = "rep" -> <<n.lo * Width(n.x)[1], n.hi * Width(n.x)[2]>>
    [] OTHER -> <<0, 0>>

WidthCat(xs, k) ==
  IF k = 0 THEN <<0, 0>>
  ELSE <<WidthCat(xs, k - 1)[1] + Width(xs[k])[1], WidthCat(xs, k - 1)[2] + Width(xs[k])[2]>>

\* a lookbehind must have a body of one fixed width
CloseBehind(r, neg, w) ==
  IF w[1] # w[2] THEN PErr ELSE PRes(TRUE, Behind(r.n, neg, w[1]), r.i + 1, r.g)

\* the group is closed by ")" after its body r
CloseGroup(p, h, r) ==
  IF r.ok /\ r.i <= Len(p) /\ p[r.i] = ")"
  THEN IF h.look \in {"<=", "<!"} THEN CloseBehind(r, h.look = "<!", Width(r.n))
       ELSE PRes(TRUE, IF h.look = "" THEN Grp(r.n, h.ic, h.cap) ELSE Look(r.n, h.look = "!"),
                 r.i + 1, r.g)
  ELSE PErr

OpenGroup(p, h) ==
  IF ~h.ok THEN PErr ELSE CloseGroup(p, h, ParseAlt(p, h.start, h.g, <<>>))

RECURSIVE Number(_, _, _)
\* int(p[i..e-1]) for a run of decimal digits
Number(p, i, e) ==
  IF e <= i THEN 0
  ELSE Number(p, i, e - 1) * 10 + (CHOOSE v \in 0..9 : DigitChars[v + 1] = p[e - 1])

\* the first index at or after i that holds no digit
DigitsEnd(p, i) ==
  CHOOSE e \in i..(Len(p) + 1) :
    /\ \A k \in i..(e - 1) : p[k] \in Digits
    /\ e = Len(p) + 1 \/ p[e] \notin Digits

NoQuantifier(i) == [rep |-> FALSE, ok |-> TRUE, lo |-> 0, hi |-> 0, i |-> i]

\* "{" at p[i] with the end a of the first number and the end b of the second:
\* {m}, {m,}, {,n} or {m,n} closed by "}" is a quantifier (an error when
\* n < m); anything else, "{}" included, leaves "{" a literal
BraceBounds(p, i, a, b) ==
  IF ~(b <= Len(p) /\ p[b] = "}") \/ b = i + 1 THEN NoQuantifier(i)
  ELSE LET lo == IF a > i + 1 THEN Number(p, i + 1, a) ELSE 0
           hi == IF b = a THEN lo
                 ELSE IF b > a + 1 THEN Number(p, a + 1, b) ELSE MAXREPEAT
       IN [rep |-> TRUE, ok |-> lo <= hi, lo |-> lo, hi |-> hi, i |-> b + 1]

BraceComma(p, i, a) ==
  BraceBounds(p, i, a, IF a <= Len(p) /\ p[a] = "," THEN DigitsEnd(p, a + 1) ELSE a)

BraceSpec(p, i) == BraceComma(p, i, DigitsEnd(p, i + 1))

\* the quantifier at p[i], if there is one: its bounds and the index after it
Quantifier(p, i) ==
  IF i > Len(p) THEN NoQuantifier(i)
  ELSE CASE p[i] = "?" -> [rep |-> TRUE, ok |-> TRUE, lo |-> 0, hi |-> 1, i |-> i + 1]
         [] p[i] = "*" -> [rep |-> TRUE, ok |-> TRUE, lo |-> 0, hi |-> MAXREPEAT, i |-> i + 1]
         [] p[i] = "+" -> [rep |-> TRUE, ok |-> TRUE, lo |-> 1, hi |-> MAXREPEAT, i |-> i + 1]
         [] p[i] = "{" -> BraceSpec(p, i)
         [] OTHER -> NoQuantifier(i)

\* one member of a character set at p[i]: a class (cls), or a character c
\* that may start or end a range
SetItem(p, i) ==
  IF i > Len(p) THEN [ok |-> FALSE, i |-> i, cls |-> "", c |-> ""]
  ELSE IF p[i] # "\\" THEN [ok |-> TRUE, i |-> i + 1, cls |-> "", c |-> p[i]]
  ELSE IF i + 1 > Len(p) THEN [ok |-> FALSE, i |-> i, cls |-> "", c |-> ""]
  ELSE IF p[i + 1] \in {"d", "s", "S", "w"}
    THEN [ok |-> TRUE, i |-> i + 2, cls |-> p[i + 1], c |-> ""]
  ELSE [ok |-> p[i + 1] \notin WordChars, i |-> i + 2, cls |-> "", c |-> p[i + 1]]

RECURSIVE ParseSet(_, _, _, _, _)
\* the member a of the set, read at p[i]; b is what follows a "-" after it
SetRange(p, i, g, node, a, b) ==
  IF ~a.ok THEN PErr
  ELSE IF ~(a.i <= Len(p) /\ p[a.i] = "-")
    THEN ParseSet(p, a.i, g,
                  CharSet(node.neg,
                          node.chars \cup (IF a.cls = "" THEN {a.c} ELSE {}),
                          node.classes \cup (IF a.cls = "" THEN {} ELSE {a.cls})),
                  FALSE)
  ELSE IF a.i + 1 > Len(p) THEN PErr
  ELSE IF p[a.i + 1] = "]"
    THEN PRes(TRUE,
              CharSet(node.neg,
                      node.chars \cup {"-"} \cup (IF a.cls = "" THEN {a.c} ELSE {}),
                      node.classes \cup (IF a.cls = "" THEN {} ELSE {a.cls})),
              a.i + 2, g)
  ELSE IF ~b.ok \/ a.cls # "" \/ b.cls # "" THEN PErr      \* bad character range
  ELSE IF Ord(b.c) < Ord(a.c) THEN PErr                      \* bad character range
  ELSE ParseSet(p, b.i, g,
                CharSet(node.neg,
                        node.chars \cup {Ascii[k] : k \in Ord(a.c)..Ord(b.c)},
                        node.classes),
                FALSE)

\* the members of a character set from p[i] up to the closing "]" (a "]" that
\* comes first is a member)
ParseSet(p, i, g, node, first) ==
  IF i > Len(p) THEN PErr
  ELSE IF p[i] = "]" /\ ~first THEN PRes(TRUE, node, i + 1, g)
  ELSE SetRange(p, i, g, node, SetItem(p, i), SetItem(p, SetItem(p, i).i + 1))

\* "[" at p[i] opens a character set, negated by a "^" that follows
OpenSet(p, i, g) ==
  IF i + 1 <= Len(p) /\ p[i + 1] = "^"
  THEN ParseSet(p, i + 2, g, CharSet(TRUE, {}, {}), TRUE)
  ELSE ParseSet(p, i + 1, g, CharSet(FALSE, {}, {}), TRUE)

\* one atom starting at p[i]
ParseAtom(p, i, g) ==
  CASE p[i] = "\\" ->
         IF i + 1 > Len(p) THEN PErr
         ELSE IF p[i + 1] \in {"b", "d", "s", "S", "w"} THEN PRes(TRUE, Cls(p[i + 1]), i + 2, g)
         ELSE IF p[i + 1] \in Special \/ p[i + 1] \notin WordChars
           THEN PRes(TRUE, Lit(p[i + 1]), i + 2, g)
         ELSE PErr
    [] p[i] \in {".", "^", "$"} -> PRes(TRUE, Cls(p[i]), i + 1, g)
    [] p[i] = "(" -> OpenGroup(p, GroupHeader(p, i, g))
    [] p[i] = "[" -> OpenSet(p, i, g)
    [] p[i] \in {"?", "*", "+"} -> PErr   \* nothing to repeat
    [] p[i] = "{" -> IF BraceSpec(p, i).rep THEN PErr ELSE PRes(TRUE, Lit("{"), i + 1, g)
    [] OTHER -> PRes(TRUE, Lit(p[i]), i + 1, g)

\* the atom a with the quantifier that follows it, if any: the node and the
\* index after it
Repeated(p, a, q) ==
  IF ~q.rep THEN [ok |-> TRUE, n |-> a.n, i |-> a.i]
  ELSE LET lazy == q.i <= Len(p) /\ p[q.i] = "?"
           j == IF lazy THEN q.i + 1 ELSE q.i
       IN IF ~q.ok
          THEN [ok |-> FALSE, n |-> a.n, i |-> j]          \* min repeat greater than max
          ELSE IF a.n.t = "cls" /\ a.n.k \in {"b", "^", "$"}
          THEN [ok |-> FALSE, n |-> a.n, i |-> j]          \* nothing to repeat
          ELSE IF Quantifier(p, j).rep
          THEN [ok |-> FALSE, n |-> a.n, i |-> j]          \* multiple repeat
          ELSE [ok |-> TRUE, n |-> Rep(a.n, q.lo, q.hi, ~lazy), i |-> j]

Quantified(p, a) == Repeated(p, a, Quantifier(p, a.i))

SeqAfter(p, acc, g, q) ==
  IF ~q.ok THEN PErr ELSE ParseSeq(p, q.i, g, Append(acc, q.n))

SeqWith(p, acc, a) ==
  IF ~a.ok THEN PErr ELSE SeqAfter(p, acc, a.g, Quantified(p, a))

\* a sequence of quantified atoms, up to "|", ")" or the end of the text
ParseSeq(p, i, g, acc) ==
  IF i > Len(p) \/ p[i] \in {"|", ")"} THEN PRes(TRUE, Cat(acc), i, g)
  ELSE SeqWith(p, acc, ParseAtom(p, i, g))

AltWith(p, acc, s) ==
  IF ~s.ok THEN PErr
  ELSE IF s.i <= Len(p) /\ p[s.i] = "|" THEN ParseAlt(p, s.i + 1, s.g, Append(acc, s.n))
  ELSE PRes(TRUE, Alt(Append(acc, s.n)), s.i, s.g)

\* branches separated by "|"
ParseAlt(p, i, g, acc) == AltWith(p, acc, ParseSeq(p, i, g, <<>>))

WholeText(p, r) == IF r.ok /\ r.i = Len(p) + 1 THEN r ELSE PErr

\* sre_parse.parse: the whole text must be consumed (a stray ")" is an error)
Parse(p) == WholeText(p, ParseAlt(p, 1, 0, <<>>))

DOTALL == "DOTALL"

RECURSIVE DotAll(_)
\* the syntax tree under re.DOTALL: "." matches every character, the newline
\* included
DotAll(n) ==
  CASE n.t = "cls" -> IF n.k = "." THEN Cls("any") ELSE n
    [] n.t \in {"cat", "alt"} -> [n EXCEPT !.xs = [k \in 1..Len(n.xs) |-> DotAll(n.xs[k])]]
    [] n.t \in {"grp", "look", "behind", "rep"} -> [n EXCEPT !.x = DotAll(n.x)]
    [] OTHER -> n

WithFlags(r, fl) == IF r.ok /\ DOTALL \in fl THEN [r EXCEPT !.n = DotAll(r.n)] ELSE r

\* the syntax tree of a compiled pattern c
ParseFor(c) == WithFlags(Parse(c.pattern), c.flags)

\* ---- matcher ------------------------------------------------------------
\* A match state: the index of the next character to read and the spans of
\* the capturing groups (<<0, 0>> while a group has not taken part).
MSt(pos, caps) == [pos |-> pos, caps |-> caps]

CharEq(a, b, ic) == IF ic THEN Lower(a) = Lower(b) ELSE a = b

IsWordAt(t, i) == i >= 1 /\ i <= Len(t) /\ t[i] \in WordChars

InClass(k, c) ==
  CASE k = "d" -> c \in Digits
    [] k = "s" -> c \in SpaceChars
    [] k = "S" -> c \notin SpaceChars
    [] k = "w" -> c \in WordChars
    [] k = "." -> c # "\n"
    [] k = "any" -> TRUE
    [] OTHER -> FALSE

\* membership of c in a character set
InSet(n, c, ic) ==
  n.neg # (\/ \E x \in n.chars : CharEq(x, c, ic)
           \/ \E k \in n.classes : InClass(k, c))

\* the zero-width assertions \b, ^ and $ at index i of t ($ also holds before
\* a final newline)
AtHolds(k, t, i) ==
  CASE k = "b" -> IsWordAt(t, i - 1) # IsWordAt(t, i)
    [] k = "^" -> i = 1
    [] k = "$" -> i = Len(t) + 1 \/ (i = Len(t) /\ t[i] = "\n")

\* a lookahead consumes nothing: it holds when its body matches here (and then
\* keeps the groups of the body's first match); a negative one when it doesn't
LookResult(n, st, rs) ==
  IF n.neg THEN (IF rs = <<>> THEN <<st>> ELSE <<>>)
  ELSE IF rs = <<>> THEN <<>> ELSE <<MSt(st.pos, rs[1].caps)>>

RECURSIVE Flat(_)
Flat(ss) == IF ss = <<>> THEN <<>> ELSE Head(ss) \o Flat(Tail(ss))

RECURSIVE M(_, _, _, _), MCat(_, _, _, _, _), MRep(_, _, _, _, _)

\* the group's span is recorded in every state its body reaches
SetCap(rs, cap, start) ==
  IF cap = 0 THEN rs
  ELSE [k \in 1..Len(rs) |->
          MSt(rs[k].pos, [rs[k].caps EXCEPT ![cap] = <<start, rs[k].pos>>])]

\* the states reachable by matching node n from state st, in the order the
\* backtracking matcher tries them
M(n, t, st, ic) ==
  CASE n.t = "lit" ->
         IF st.pos <= Len(t) /\ CharEq(t[st.pos], n.c, ic)
         THEN <<MSt(st.pos + 1, st.caps)>> ELSE <<>>
    [] n.t = "cls" ->
         IF n.k \in {"b", "^", "$"}
         THEN IF AtHolds(n.k, t, st.pos) THEN <<st>> ELSE <<>>
         ELSE IF st.pos <= Len(t) /\ InClass(n.k, t[st.pos])
              THEN <<MSt(st.pos + 1, st.caps)>> ELSE <<>>
    [] n.t = "cat" -> MCat(n.xs, 1, t, st, ic)
    [] n.t = "rep" -> MRep(n, 0, t, st, ic)
    [] n.t = "set" ->
         IF st.pos <= Len(t) /\ InSet(n, t[st.pos], ic)
         THEN <<MSt(st.pos + 1, st.caps)>> ELSE <<>>
    [] n.t = "look" -> LookResult(n, st, M(n.x, t, st, ic))
    [] n.t = "behind" ->
         \* the body must match the n.w characters that end here
         LookResult(n, st,
                    IF st.pos - n.w < 1 THEN <<>>
                    ELSE SelectSeq(M(n.x, t, MSt(st.pos - n.w, st.caps), ic),
                                   LAMBDA r : r.pos = st.pos))
    [] OTHER ->
         \* "alt": the branches in order (xs); "grp": its body (x)
         SetCap(Flat([k \in 1..(IF n.t = "alt" THEN Len(n.xs) ELSE 1) |->
                        M(IF n.t = "alt" THEN n.xs[k] ELSE n.x, t, st,
                          ic \/ (n.t = "grp" /\ n.ic))]),
                IF n.t = "grp" THEN n.cap ELSE 0, st.pos)

CatRest(xs, k, t, ic, rs) ==
  Flat([j \in 1..Len(rs) |-> MCat(xs, k + 1, t, rs[j], ic)])

MCat(xs, k, t, st, ic) ==
  IF k > Len(xs) THEN <<st>> ELSE CatRest(xs, k, t, ic, M(xs[k], t, st, ic))

\* after an iteration that consumed nothing the loop is left once the
\* minimum count is reached
RepMore(n, cnt, t, st, ic, rs) ==
  Flat([j \in 1..Len(rs) |->
          IF rs[j].pos = st.pos /\ cnt >= n.lo THEN <<rs[j]>>
          ELSE MRep(n, cnt + 1, t, rs[j], ic)])

RepOrder(n, cnt, st, more) ==
  IF n.greedy THEN more \o (IF cnt >= n.lo THEN <<st>> ELSE <<>>)
  ELSE (IF cnt >= n.lo THEN <<st>> ELSE <<>>) \o more

\* n.x repeated, cnt repetitions done so far
MRep(n, cnt, t, st, ic) ==
  RepOrder(n, cnt, st,
           IF cnt >= n.hi THEN <<>> ELSE RepMore(n, cnt, t, st, ic, M(n.x, t, st, ic)))

NoCaps(g) == [k \in 1..g |-> <<0, 0>>]

NoMatch(s) == [found |-> FALSE, s |-> s, e |-> s, caps |-> <<>>]

FirstOf(s, ok) ==
  IF ok = <<>> THEN NoMatch(s)
  ELSE [found |-> TRUE, s |-> s, e |-> ok[1].pos, caps |-> ok[1].caps]

\* the first match starting exactly at index s (must_advance: not an empty one)
MatchAt(pr, t, s, ic, mustAdvance) ==
  FirstOf(s, SelectSeq(M(pr.n, t, MSt(s, NoCaps(pr.g)), ic),
                       LAMBDA r : ~(mustAdvance /\ r.pos = s)))

RECURSIVE SearchFrom(_, _, _, _, _)
SearchNext(pr, t, s, ic, m) ==
  IF m.found THEN m ELSE SearchFrom(pr, t, s + 1, ic, FALSE)

\* the leftmost match starting at index s or later
SearchFrom(pr, t, s, ic, mustAdvance) ==
  IF s > Len(t) + 1 THEN NoMatch(s)
  ELSE SearchNext(pr, t, s, ic, MatchAt(pr, t, s, ic, mustAdvance))

RECURSIVE ScanAll(_, _, _, _, _)
\* ScanNext resuming one character after the start of the match it found,
\* so that matches may overlap
ScanNextOverlapping(pr, t, ic, m) ==
  IF ~m.found THEN <<>> ELSE <<m>> \o ScanAll(pr, t, m.s + 1, ic, FALSE)

ScanNext(pr, t, ic, m) ==
  IF ~m.found THEN <<>> ELSE <<m>> \o ScanAll(pr, t, m.e, ic, m.e = m.s)

\* the scanner behind finditer/findall: each search resumes at the end of the
\* previous match, and an empty match may not follow an empty match in place
ScanAll(pr, t, s, ic, mustAdvance) ==
  ScanNext(pr, t, ic, SearchFrom(pr, t, s, ic, mustAdvance))

\* the text of a span (empty when the group did not take part)
Slice(t, sp) == IF sp[1] = 0 THEN <<>> ELSE SubSeq(t, sp[1], sp[2] - 1)

\* what findall reports for one match: the match; with one group, the group;
\* with several, the tuple of groups
FindallItem(pr, t, m) ==
  IF pr.g = 0 THEN SubSeq(t, m.s, m.e - 1)
  ELSE IF pr.g = 1 THEN Slice(t, m.caps[1])
  ELSE [k \in 1..pr.g |-> Slice(t, m.caps[k])]

FindallItems(pr, t, ms) == [k \in 1..Len(ms) |-> FindallItem(pr, t, ms[k])]

\* Pattern.search / Pattern.match / Pattern.finditer / Pattern.findall of a
\* compiled pattern c on a str
PatternSearch(c, pr, s) == SearchFrom(pr, s, 1, IGNORECASE \in c.flags, FALSE).found
PatternMatch(c, pr, s) == MatchAt(pr, s, 1, IGNORECASE \in c.flags, FALSE).found
PatternFinditer(c, pr, s) == ScanAll(pr, s, 1, IGNORECASE \in c.flags, FALSE)
PatternFindall(c, pr, s) == FindallItems(pr, s, PatternFinditer(c, pr, s))

(***************************************************************************)
(* Match facade (regex_helper.py, "Pattern Usage Functions")               *)
(***************************************************************************)
IsStr(x) == x.kind = "str"
IsPattern(x) == x.kind = "compiled"

CompiledIf(ok, s, fl) == IF ok THEN Ok(Compiled(s, fl)) ELSE Raise("re.error")

\* re.compile(s, flags) for a str s
ReCompile(s, fl) == CompiledIf(Parse(s).ok, s, fl)

\* re._compile(pattern, 0), the first step of re.search/finditer/findall: a
\* compiled pattern is used as it is, a str is compiled without flags
CompileArg(pattern) ==
  IF IsPattern(pattern) THEN Ok(pattern)
  ELSE IF IsStr(pattern) THEN ReCompile(pattern.pattern, {})
  ELSE Raise("TypeError")

\* the method of the compiled pattern c applied to text: a text that is not
\* a str raises TypeError
OnText(c, text, method) ==
  IF ~c.ok THEN c
  ELSE IF ~IsStr(text) THEN Raise("TypeError")
  ELSE CASE method = "match" -> Ok(PatternMatch(c.val, ParseFor(c.val), text.pattern))
         [] method = "search" -> Ok(PatternSearch(c.val, ParseFor(c.val), text.pattern))
         [] method = "finditer" -> Ok(Len(PatternFinditer(c.val, ParseFor(c.val), text.pattern)))
         [] method = "findall" -> Ok(PatternFindall(c.val, ParseFor(c.val), text.pattern))

\* is_match with pattern.search in place of pattern.match
is_match_search(text, pattern) ==
  IF ~IsPattern(pattern) THEN Raise("AttributeError")
  ELSE OnText(Ok(pattern), text, "search")

\* pattern.match(text) is not None: a str has no attribute match
is_match(text, pattern) ==
  IF ~IsPattern(pattern) THEN Raise("AttributeError")
  ELSE OnText(Ok(pattern), text, "match")

\* sum(1 for _ in re.finditer(pattern, text))
count_matches(text, pattern) == OnText(CompileArg(pattern), text, "finditer")

\* re.findall(pattern, text)
get_matches(text, pattern) == OnText(CompileArg(pattern), text, "findall")

\* re.search(pattern, text) is not None
contains_match(text, pattern) == OnText(CompileArg(pattern), text, "search")

RECURSIVE NatToStr(_)
\* str(k) of an int k
NatToStr(k) ==
  IF k < 10 THEN <<DigitChars[k + 1]>>
  ELSE NatToStr(k \div 10) \o <<DigitChars[(k % 10) + 1]>>
IntToStr(k) == IF k < 0 THEN <<"-">> \o NatToStr(-k) ELSE NatToStr(k)

\* n_words_pattern with one word fewer before the pattern, so that the window
\* of n words includes the match
NWordsPatternIncluding(use_pattern, n, include_match) ==
  IF include_match
  THEN <<"\\", "b", "(", "\\", "S", "+", "(", "?", ":", "\\", "s", "+", "\\", "S", "+", ")",
         "{", "0", ",">> \o IntToStr(n - 2) \o <<"}", "\\", "s", "+">> \o use_pattern \o <<")">>
  ELSE <<"\\", "b", "(", "\\", "S", "+", "(", "?", ":", "\\", "s", "+", "\\", "S", "+", ")",
         "{", "0", ",">> \o IntToStr(n - 2) \o <<"}", ")", "(", "?", "=", "\\", "s", "+">>
         \o use_pattern \o <<")">>

\* lines 93-96: n_words_pattern, spliced around the pattern's text
NWordsPattern(use_pattern, n, include_match) ==
  IF include_match
  THEN <<"\\", "b", "(", "\\", "S", "+", "(", "?", ":", "\\", "s", "+", "\\", "S", "+", ")",
         "{", "0", ",">> \o IntToStr(n - 1) \o <<"}", "\\", "s", "+">> \o use_pattern \o <<")">>
  ELSE <<"\\", "b", "(", "\\", "S", "+", "(", "?", ":", "\\", "s", "+", "\\", "S", "+", ")",
         "{", "0", ",">> \o IntToStr(n - 1) \o <<"}", ")", "(", "?", "=", "\\", "s", "+">>
         \o use_pattern \o <<")">>

\* lines 86-98: the text of a compiled pattern is taken (its flags are not),
\* a str is used as it is; anything else cannot be concatenated to a str
get_words_before_pattern(text, pattern, n, include_match) ==
  IF ~(IsPattern(pattern) \/ IsStr(pattern)) THEN Raise("TypeError")
  ELSE OnText(ReCompile(NWordsPattern(pattern.pattern, n, include_match), {}),
              text, "findall")

\* lines 139-142: the pattern built around the two delimiting patterns
ExtractPattern(s, t, im) ==
  IF im THEN s \o <<"(", ".", "*", "?">> \o t \o <<")">>
  ELSE s \o <<"(", ".", "*", "?", ")">> \o t

\* lines 132-146: the text of a compiled delimiter is taken (its flags are
\* not), a str is used as it is; anything else cannot be concatenated to a str
extract_between_patterns(t, s, e, im) ==
  IF ~(IsPattern(s) \/ IsStr(s)) \/ ~(IsPattern(e) \/ IsStr(e)) THEN Raise("TypeError")
  ELSE OnText(ReCompile(ExtractPattern(s.pattern, e.pattern, im), {DOTALL}), t, "findall")

(***************************************************************************)
(* Pattern creation functions (regex_helper.py)                            *)
(***************************************************************************)
RECURSIVE Join(_, _)
\* sep.join(xs)
Join(sep, xs) ==
  IF xs = <<>> THEN <<>>
  ELSE IF Len(xs) = 1 THEN xs[1]
  ELSE xs[1] \o sep \o Join(sep, Tail(xs))

\* isinstance(x, re.Pattern) or isinstance(x, str)
IsPatternOrStr(x) == IsPattern(x) \/ IsStr(x)

\* the text of an input: pattern.pattern of a compiled pattern, the str itself
PatternText(x) == x.pattern

\* f'(?i:{s})'
InlineIgnoreCase(s) == <<"(", "?", "i", ":">> \o s \o <<")">>

\* AnyEntry without the inline scope: the input's text as it is, whatever
\* case_sensitive says
AnyEntryUnwrapped(x, case_sensitive) == PatternText(x)

\* lines 203-207: the entry appended to patterns_str for one input
AnyEntry(x, case_sensitive) ==
  IF ~case_sensitive THEN InlineIgnoreCase(PatternText(x)) ELSE PatternText(x)

\* AnyOutStr without the group around the alternation
AnyOutStrUngrouped(patterns_str, use_word_boundaries) ==
  IF use_word_boundaries
  THEN <<"\\", "b">> \o Join(<<"|">>, patterns_str) \o <<"\\", "b">>
  ELSE Join(<<"|">>, patterns_str)

\* AnyOutStr joining with '' in place of '|'
AnyOutStrConcatenated(patterns_str, use_word_boundaries) ==
  IF use_word_boundaries
  THEN <<"\\", "b", "(", "?", ":">> \o Join(<<>>, patterns_str) \o <<")", "\\", "b">>
  ELSE <<"(", "?", ":">> \o Join(<<>>, patterns_str) \o <<")">>

\* lines 212-216: out_str
AnyOutStr(patterns_str, use_word_boundaries) ==
  IF use_word_boundaries
  THEN <<"\\", "b", "(", "?", ":">> \o Join(<<"|">>, patterns_str) \o <<")", "\\", "b">>
  ELSE <<"(", "?", ":">> \o Join(<<"|">>, patterns_str) \o <<")">>

\* lines 218-221 and 266-269: re.IGNORECASE unless case_sensitive
CompileFlags(case_sensitive) == IF case_sensitive THEN {} ELSE {IGNORECASE}

combine_patterns_any(patterns, case_sensitive, use_word_boundaries) ==
  IF \E k \in 1..Len(patterns) : ~IsPatternOrStr(patterns[k]) THEN Raise("TypeError")
  ELSE ReCompile(AnyOutStr([k \in 1..Len(patterns) |-> AnyEntry(patterns[k], case_sensitive)],
                           use_word_boundaries),
                 CompileFlags(case_sensitive))

\* DelimiterText with ' ' for a delimiter of None
DelimiterTextSpace(delimiter) == IF IsStr(delimiter) THEN delimiter.pattern ELSE <<" ">>

\* lines 252-253: delimiter None stands for ''
DelimiterText(delimiter) == IF IsStr(delimiter) THEN delimiter.pattern ELSE <<>>

\* combine_patterns_all without the else branch: an input that is neither a
\* pattern nor a str is passed over
combine_patterns_all_skipping(patterns, delimiter, case_sensitive) ==
  ReCompile(Join(DelimiterText(delimiter),
                 LET valid == SelectSeq(patterns, IsPatternOrStr)
                 IN [k \in 1..Len(valid) |-> PatternText(valid[k])]),
            CompileFlags(case_sensitive))

\* combine_patterns_all with the delimiter after every sub-pattern, the last
\* one included
combine_patterns_all_trailing(patterns, delimiter, case_sensitive) ==
  IF \E k \in 1..Len(patterns) : ~IsPatternOrStr(patterns[k]) THEN Raise("TypeError")
  ELSE ReCompile(Flat([k \in 1..Len(patterns) |->
                         PatternText(patterns[k]) \o DelimiterText(delimiter)]),
                 CompileFlags(case_sensitive))

combine_patterns_all(patterns, delimiter, case_sensitive) ==
  IF \E k \in 1..Len(patterns) : ~IsPatternOrStr(patterns[k]) THEN Raise("TypeError")
  ELSE ReCompile(Join(DelimiterText(delimiter),
                      [k \in 1..Len(patterns) |-> PatternText(patterns[k])]),
                 CompileFlags(case_sensitive))

\* f"\\d{{{n}}}": a str, not compiled, for any int n
n_digits(n) == Ok(Str(<<"\\", "d", "{">> \o IntToStr(n) \o <<"}">>))

\* make_optional compiling with the flags of a compiled input
make_optional_inheriting(pattern) ==
  IF ~IsPatternOrStr(pattern) THEN Raise("TypeError")
  ELSE ReCompile(<<"(", "?", ":">> \o PatternText(pattern) \o <<")", "?">>, pattern.flags)

\* make_optional without the group: the ? binds to the last atom only
make_optional_ungrouped(pattern) ==
  IF ~IsPatternOrStr(pattern) THEN Raise("TypeError")
  ELSE ReCompile(PatternText(pattern) \o <<"?">>, {})

make_optional(pattern) ==
  IF ~IsPatternOrStr(pattern) THEN Raise("TypeError")
  ELSE ReCompile(<<"(", "?", ":">> \o PatternText(pattern) \o <<")", "?">>, {})

(***************************************************************************)
(* Batch functions (regex_helper.py, "Multiprocessing Functions")          *)
(*                                                                         *)
(* contains_match_multi, is_match_multi, count_matches_multi and           *)
(* get_matches_multi share one body; op names the single-text operation    *)
(* the called function maps over texts.                                    *)
(***************************************************************************)
VARIABLES
  op,          \* which batch function was called, by its single-text operation
  texts,       \* the caller's list of texts
  pattern,     \* the caller's pattern object
  n_workers,   \* the n_workers argument: [given |-> FALSE] models None
  pc,          \* where the call stands
  nw,          \* the local n_workers after the default is applied
  i,           \* sequential path: index of the next text
  results,     \* the list under construction / returned to the caller
  raised,      \* the exception raised to the caller
  poolState,   \* "none", "running" or "terminated"
  wtask,       \* per worker process: the chunk it holds (0: idle)
  taskq,       \* chunks not yet picked up by a worker
  chunksize,   \* MapResult._chunksize
  mapValue,    \* MapResult._value: one slot per text, <<>> until filled
  mapSuccess,  \* MapResult._success
  mapError,    \* the exception MapResult._value holds after a failure
  numberLeft,  \* MapResult._number_left
  eventSet,    \* MapResult._event
  applied,     \* history: how often the operation ran on each text
  reordered,   \* history: some chunk finished before a chunk queued ahead of it
  dispatched,  \* history: the indices of the texts queued for the pool
  firstFailed, \* history: the exception of the first chunk that failed
  fn,                   \* the pattern creation function called
  patterns,             \* its *patterns arguments (make_optional: one)
  case_sensitive,       \* its keyword arguments
  use_word_boundaries,
  delimiter,
  lookbehind,           \* the lookbehind argument of add_lookbehind
  window,               \* its n_words / n_characters argument
  positive,             \* its positive argument
  cpc,                  \* "idle", "ready" (not yet called) or "done"
  out,                  \* what the call returned or raised
  func,                 \* the pattern usage function called
  text,                 \* its text argument
  n,                    \* the n argument (get_words_before_pattern, n_digits)
  include_match,        \* the include_match argument
  start_pattern,        \* the arguments of extract_between_patterns
  end_pattern,
  include_matches,
  apc,                  \* "idle", "ready" (not yet called) or "done"
  ret                   \* what the call returned or raised

bvars == <<op, texts, pattern, n_workers, pc, nw, i, results, raised, poolState,
           wtask, taskq, chunksize, mapValue, mapSuccess, mapError, numberLeft,
           eventSet, applied, reordered, dispatched, firstFailed>>
cvars == <<fn, patterns, case_sensitive, use_word_boundaries, delimiter, lookbehind,
           window, positive, cpc, out>>
avars == <<func, text, n, include_match, start_pattern, end_pattern, include_matches,
           apc, ret>>

\* no pattern usage function is being called
NoUsageCall ==
  /\ func = "none"
  /\ text = Other
  /\ n = 0
  /\ include_match = TRUE
  /\ start_pattern = Other
  /\ end_pattern = Other
  /\ include_matches = FALSE
  /\ apc = "idle"
  /\ ret = Raise("none")

\* ---- bounds of the batch model -----------------------------------------
MaxTexts == 2
MaxWorkers == 3
\* multiprocessing.cpu_count() of the host
CpuCount == 2

Operations == {"contains_match", "is_match", "count_matches", "get_matches"}
BatchTexts == {Str(<<"a", "b">>), Str(<<"b">>), Other}
BatchPatterns == {Str(<<"a">>), Compiled(<<"A">>, {IGNORECASE})}
TextLists == UNION {[1..k -> BatchTexts] : k \in 0..MaxTexts}
WorkerArgs == {[given |-> FALSE, n |-> 0]} \cup {[given |-> TRUE, n |-> k] : k \in -1..MaxWorkers}

NoError == [type |-> "none", at |-> 0]
Error(type, at) == [type |-> type, at |-> at]

\* the single-text operation a batch function maps over its texts
ApplyOp(o, txt, pat) ==
  CASE o = "contains_match" -> contains_match(txt, pat)
    [] o = "is_match" -> is_match(txt, pat)
    [] o = "count_matches" -> count_matches(txt, pat)
    [] o = "get_matches" -> get_matches(txt, pat)

\* An argument as the worker process sees it: pickled by the parent and
\* rebuilt by the worker.  A str (or None) is rebuilt from its characters; a
\* compiled pattern pickles as (re._compile, (pattern, flags)) and is
\* compiled again in the worker.
Pickle(x) ==
  IF IsPattern(x) THEN [fn |-> "re._compile", s |-> x.pattern, fl |-> x.flags]
  ELSE [fn |-> x.kind, s |-> x.pattern, fl |-> {}]
\* Unpickle rebuilding a compiled pattern from its text alone, flags lost
UnpickleNoFlags(b) ==
  CASE b.fn = "re._compile" -> Compiled(b.s, {})
    [] b.fn = "str" -> Str(b.s)
    [] OTHER -> Other
Unpickle(b) ==
  CASE b.fn = "re._compile" -> Compiled(b.s, b.fl)
    [] b.fn = "str" -> Str(b.s)
    [] OTHER -> Other
WorkerArg(x) == Unpickle(Pickle(x))

\* Pool._map_async: chunksize, extra = divmod(len, len(pool) * 4)
ChunkSize(len, procs) ==
  IF len = 0 THEN 0
  ELSE (len \div (procs * 4)) + (IF len % (procs * 4) # 0 THEN 1 ELSE 0)

\* MapResult.__init__: the number of chunks
NumChunks(len, cs) ==
  IF cs <= 0 THEN 0 ELSE (len \div cs) + (IF len % cs # 0 THEN 1 ELSE 0)

Min(a, b) == IF a < b THEN a ELSE b

\* ChunkItems with every text in every chunk
ChunkItemsWhole(c, len, cs) == [k \in 1..len |-> k]

\* Pool._get_tasks: the indices of texts that make up chunk c (1-based)
ChunkItems(c, len, cs) ==
  [k \in 1..Min(cs, len - (c - 1) * cs) |-> (c - 1) * cs + k]

\* the same indices as a set
ChunkSet(c, len, cs) ==
  {ChunkItems(c, len, cs)[k] : k \in 1..Len(ChunkItems(c, len, cs))}

\* starmapstar in the worker: the operation on each item of the chunk in
\* turn (rs); the first exception ends the chunk and becomes its result
ChunkResult(ix, rs) ==
  LET bad == {k \in 1..Len(ix) : ~rs[k].ok}
      ff == IF bad = {} THEN 0 ELSE CHOOSE k \in bad : \A j \in bad : k <= j
  IN IF ff = 0
     THEN [ok |-> TRUE, vals |-> [k \in 1..Len(ix) |-> rs[k].val],
           err |-> NoError, ran |-> {ix[k] : k \in 1..Len(ix)}]
     ELSE [ok |-> FALSE, vals |-> <<>>,
           err |-> Error(rs[ff].err, ix[ff]), ran |-> {ix[k] : k \in 1..ff}]
RunChunk(o, txts, pat, ix) ==
  ChunkResult(ix, [k \in 1..Len(ix) |-> ApplyOp(o, WorkerArg(txts[ix[k]]), WorkerArg(pat))])

\* ---- the call ----------------------------------------------------------
\* the caller makes one batch call
BatchInit ==
  /\ NoUsageCall
  /\ fn = "none"
  /\ patterns = <<>>
  /\ case_sensitive = TRUE
  /\ use_word_boundaries = FALSE
  /\ delimiter = Other
  /\ lookbehind = Other
  /\ window = 0
  /\ positive = TRUE
  /\ cpc = "idle"
  /\ out = Raise("none")
  /\ op \in Operations
  /\ texts \in TextLists
  /\ pattern \in BatchPatterns
  /\ n_workers \in WorkerArgs
  /\ pc = "call"
  /\ nw = 0
  /\ i = 0
  /\ results = <<>>
  /\ raised = NoError
  /\ poolState = "none"
  /\ wtask = <<>>
  /\ taskq = <<>>
  /\ chunksize = 0
  /\ mapValue = <<>>
  /\ mapSuccess = TRUE
  /\ mapError = NoError
  /\ numberLeft = 0
  /\ eventSet = FALSE
  /\ applied = [k \in 1..Len(texts) |-> 0]
  /\ reordered = FALSE
  /\ dispatched = {}
  /\ firstFailed = NoError

\* TakesSequentialPath with an empty list always handled in the caller
TakesSequentialPathIfEmpty(len, workers) == len < workers \/ len = 0

\* TakesSequentialPath with <= in place of <
TakesSequentialPathInclusive(len, workers) == len <= workers

\* the sequential path is taken when there are fewer texts than workers
TakesSequentialPath(len, workers) == len < workers

\* lines 465-468: default the worker count, choose the path
Call ==
  /\ pc = "call"
  /\ nw' = IF n_workers.given THEN n_workers.n ELSE CpuCount
  /\ IF TakesSequentialPath(Len(texts), nw')
     THEN pc' = "sequential" /\ i' = 1
     ELSE pc' = "pool" /\ i' = i
  /\ UNCHANGED <<cvars, avars>>
  /\ UNCHANGED <<dispatched, firstFailed>>
  /\ UNCHANGED <<op, texts, pattern, n_workers, results, raised, poolState, wtask,
                 taskq, chunksize, mapValue, mapSuccess, mapError, numberLeft,
                 eventSet, applied, reordered>>

\* SeqApplied passing over a text on which the operation fails
SeqAppliedSkipping(r) ==
  /\ applied' = [applied EXCEPT ![i] = @ + 1]
  /\ results' = IF r.ok THEN Append(results, r.val) ELSE results
  /\ i' = i + 1
  /\ UNCHANGED <<pc, raised>>

\* line 469: the operation's outcome r on texts[i] is appended or raised
SeqApplied(r) ==
  /\ applied' = [applied EXCEPT ![i] = @ + 1]
  /\ IF r.ok
     THEN /\ results' = Append(results, r.val)
          /\ i' = i + 1
          /\ UNCHANGED <<pc, raised>>
     ELSE /\ pc' = "raised"
          /\ raised' = Error(r.err, i)
          /\ UNCHANGED <<results, i>>

\* SeqStep taking each text off the caller's list: texts.pop(0) in place of
\* iterating over texts
SeqStepConsuming ==
  /\ pc = "sequential"
  /\ texts # <<>>
  /\ LET r == ApplyOp(op, texts[1], pattern) IN
     /\ texts' = Tail(texts)
     /\ applied' = applied
     /\ IF r.ok
        THEN /\ results' = Append(results, r.val)
             /\ UNCHANGED <<pc, raised>>
        ELSE /\ pc' = "raised"
             /\ raised' = Error(r.err, Len(results) + 1)
             /\ UNCHANGED results
  /\ i' = i
  /\ UNCHANGED <<cvars, avars>>
  /\ UNCHANGED <<dispatched, firstFailed>>
  /\ UNCHANGED <<op, pattern, n_workers, nw, poolState, wtask, taskq,
                 chunksize, mapValue, mapSuccess, mapError, numberLeft, eventSet,
                 reordered>>

\* line 469: one iteration of the list comprehension in the caller
SeqStep ==
  /\ pc = "sequential"
  /\ i <= Len(texts)
  /\ SeqApplied(ApplyOp(op, texts[i], pattern))
  /\ UNCHANGED <<cvars, avars>>
  /\ UNCHANGED <<dispatched, firstFailed>>
  /\ UNCHANGED <<op, texts, pattern, n_workers, nw, poolState, wtask, taskq,
                 chunksize, mapValue, mapSuccess, mapError, numberLeft, eventSet,
                 reordered>>

\* line 469: the comprehension is exhausted, the list is returned
SeqReturn ==
  /\ pc = "sequential"
  /\ i > Len(texts)
  /\ pc' = "returned"
  /\ UNCHANGED <<cvars, avars>>
  /\ UNCHANGED <<dispatched, firstFailed>>
  /\ UNCHANGED <<op, texts, pattern, n_workers, nw, i, results, raised, poolState,
                 wtask, taskq, chunksize, mapValue, mapSuccess, mapError,
                 numberLeft, eventSet, applied, reordered>>

\* line 471: Pool(n_workers) starts n_workers worker processes, or raises
\* ValueError("Number of processes must be at least 1")
PoolCreate ==
  /\ pc = "pool"
  /\ IF nw < 1
     THEN /\ pc' = "raised"
          /\ raised' = Error("ValueError", 0)
          /\ UNCHANGED <<poolState, wtask>>
     ELSE /\ pc' = "starmap"
          /\ poolState' = "running"
          /\ wtask' = [w \in 1..nw |-> 0]
          /\ UNCHANGED raised
  /\ UNCHANGED <<cvars, avars>>
  /\ UNCHANGED <<dispatched, firstFailed>>
  /\ UNCHANGED <<op, texts, pattern, n_workers, nw, i, results, taskq, chunksize,
                 mapValue, mapSuccess, mapError, numberLeft, eventSet, applied,
                 reordered>>

\* line 472: pool.starmap cuts the argument list into chunks, queues them
\* and blocks the caller on the MapResult
Starmap ==
  /\ pc = "starmap"
  /\ LET cs == ChunkSize(Len(texts), Len(wtask))
         nc == NumChunks(Len(texts), cs)
     IN /\ chunksize' = cs
        /\ taskq' = [c \in 1..nc |-> c]
        /\ numberLeft' = nc
        /\ eventSet' = (cs <= 0)
        /\ dispatched' = UNION {ChunkSet(c, Len(texts), cs) : c \in 1..nc}
  /\ mapValue' = [k \in 1..Len(texts) |-> <<>>]
  /\ mapSuccess' = TRUE
  /\ pc' = "waiting"
  /\ UNCHANGED <<cvars, avars>>
  /\ UNCHANGED firstFailed
  /\ UNCHANGED <<op, texts, pattern, n_workers, nw, i, results, raised, poolState,
                 wtask, mapError, applied, reordered>>

\* a worker process takes the next chunk off the task queue
WorkerTake(w) ==
  /\ poolState = "running"
  /\ wtask[w] = 0
  /\ taskq # <<>>
  /\ wtask' = [wtask EXCEPT ![w] = Head(taskq)]
  /\ taskq' = Tail(taskq)
  /\ UNCHANGED <<cvars, avars>>
  /\ UNCHANGED <<dispatched, firstFailed>>
  /\ UNCHANGED <<op, texts, pattern, n_workers, pc, nw, i, results, raised,
                 poolState, chunksize, mapValue, mapSuccess, mapError, numberLeft,
                 eventSet, applied, reordered>>

\* MapSet storing each chunk's results behind those of the chunks that
\* finished before it (completion order in place of the chunk's own index)
MapSetCompletionOrder(c, r, val, success, err, left) ==
  LET store == r.ok /\ success
      lo == (NumChunks(Len(val), chunksize) - left) * chunksize
  IN [value |-> IF store
                THEN [k \in 1..Len(val) |->
                        IF k > lo /\ k <= lo + Len(r.vals) THEN <<r.vals[k - lo]>>
                        ELSE val[k]]
                ELSE val,
      success |-> success /\ r.ok,
      err |-> IF ~r.ok /\ success THEN r.err ELSE err,
      left |-> left - 1,
      ready |-> left - 1 = 0]

\* MapSet that is ready one chunk early (<= 1 in place of = 0)
MapSetReadyEarly(c, r, val, success, err, left) ==
  LET store == r.ok /\ success
      lo == (c - 1) * chunksize
  IN [value |-> IF store
                THEN [k \in 1..Len(val) |->
                        IF k > lo /\ k <= lo + Len(r.vals) THEN <<r.vals[k - lo]>>
                        ELSE val[k]]
                ELSE val,
      success |-> success /\ r.ok,
      err |-> IF ~r.ok /\ success THEN r.err ELSE err,
      left |-> left - 1,
      ready |-> left - 1 <= 1]

\* MapSet that is ready as soon as a chunk has failed
MapSetFailFast(c, r, val, success, err, left) ==
  LET store == r.ok /\ success
      lo == (c - 1) * chunksize
  IN [value |-> IF store
                THEN [k \in 1..Len(val) |->
                        IF k > lo /\ k <= lo + Len(r.vals) THEN <<r.vals[k - lo]>>
                        ELSE val[k]]
                ELSE val,
      success |-> success /\ r.ok,
      err |-> IF ~r.ok /\ success THEN r.err ELSE err,
      left |-> left - 1,
      ready |-> left - 1 = 0 \/ ~r.ok]

\* MapResult._set(c - 1, (success, result)) as a function of the fields
MapSet(c, r, val, success, err, left) ==
  LET store == r.ok /\ success
      lo == (c - 1) * chunksize
  IN [value |-> IF store
                THEN [k \in 1..Len(val) |->
                        IF k > lo /\ k <= lo + Len(r.vals) THEN <<r.vals[k - lo]>>
                        ELSE val[k]]
                ELSE val,
      success |-> success /\ r.ok,
      \* only the first exception is stored
      err |-> IF ~r.ok /\ success THEN r.err ELSE err,
      left |-> left - 1,
      \* the result is ready once all chunks are done
      ready |-> left - 1 = 0]

\* the result handler stores what MapResult._set computed
HandleResult(m) ==
  /\ mapValue' = m.value
  /\ mapSuccess' = m.success
  /\ mapError' = m.err
  /\ numberLeft' = m.left
  /\ eventSet' = (eventSet \/ m.ready)

\* chunk c has run in a worker with result r
ChunkDone(c, r) ==
  /\ applied' = [k \in 1..Len(texts) |-> applied[k] + (IF k \in r.ran THEN 1 ELSE 0)]
  /\ HandleResult(MapSet(c, r, mapValue, mapSuccess, mapError, numberLeft))
  /\ firstFailed' = IF ~r.ok /\ firstFailed = NoError THEN r.err ELSE firstFailed
  /\ reordered' = (reordered \/ \E v \in DOMAIN wtask : wtask[v] # 0 /\ wtask[v] < c)

\* a worker runs the chunk it holds and sends the result back; the result
\* handler thread receives the results in the order they were sent and
\* passes each one to MapResult._set
WorkerRun(w) ==
  /\ poolState = "running"
  /\ wtask[w] # 0
  /\ ChunkDone(wtask[w],
               RunChunk(op, texts, pattern, ChunkItems(wtask[w], Len(texts), chunksize)))
  /\ wtask' = [wtask EXCEPT ![w] = 0]
  /\ UNCHANGED <<cvars, avars>>
  /\ UNCHANGED dispatched
  /\ UNCHANGED <<op, texts, pattern, n_workers, pc, nw, i, results, raised,
                 poolState, taskq, chunksize>>

\* a slot of MapResult._value: None until a chunk result fills it
SlotValue(slot) == IF slot = <<>> THEN "None" ELSE slot[1]

\* CallerWake without the with block: the pool is left as it is
CallerWakeLeavingPool ==
  /\ pc = "waiting"
  /\ eventSet
  /\ IF mapSuccess
     THEN /\ pc' = "returned"
          /\ results' = [k \in 1..Len(mapValue) |-> SlotValue(mapValue[k])]
          /\ UNCHANGED raised
     ELSE /\ pc' = "raised"
          /\ raised' = mapError
          /\ UNCHANGED results
  /\ UNCHANGED <<poolState, wtask, taskq>>
  /\ UNCHANGED <<cvars, avars>>
  /\ UNCHANGED <<dispatched, firstFailed>>
  /\ UNCHANGED <<op, texts, pattern, n_workers, nw, i, chunksize, mapValue,
                 mapSuccess, mapError, numberLeft, eventSet, applied, reordered>>

\* lines 472-473: MapResult.get() returns once the event is set: the value, or
\* the stored exception; leaving the with block terminates the pool
CallerWake ==
  /\ pc = "waiting"
  /\ eventSet
  /\ IF mapSuccess
     THEN /\ pc' = "returned"
          /\ results' = [k \in 1..Len(mapValue) |-> SlotValue(mapValue[k])]
          /\ UNCHANGED raised
     ELSE /\ pc' = "raised"
          /\ raised' = mapError
          /\ UNCHANGED results
  /\ poolState' = "terminated"
  /\ wtask' = [w \in DOMAIN wtask |-> 0]
  /\ taskq' = <<>>
  /\ UNCHANGED <<cvars, avars>>
  /\ UNCHANGED <<dispatched, firstFailed>>
  /\ UNCHANGED <<op, texts, pattern, n_workers, nw, i, chunksize, mapValue,
                 mapSuccess, mapError, numberLeft, eventSet, applied, reordered>>

(***************************************************************************)
(* Calls of the pattern creation functions                                 *)
(***************************************************************************)
\* ---- bounds of the combinator model -------------------------------------
MaxPatterns == 2
MaxDigits == 2

\* inputs: raw text, compiled patterns with and without re.IGNORECASE, text
\* that is not self-contained (a|b), text that does not compile, and an
\* object that is no pattern at all
Fragments ==
  { Str(<<"a">>), Str(<<"b">>), Str(<<"a", "|", "b">>), Str(<<"(">>),
    Compiled(<<"b">>, {}), Compiled(<<"a">>, {IGNORECASE}), Other }
Delimiters == {Other, Str(<<" ">>)}
PatternLists == UNION {[1..k -> Fragments] : k \in 0..MaxPatterns}

\* the text of the example that follows the definition of line 1095
WaterText ==
  <<"T", "h", "e", " ", "w", "a", "t", "e", "r", " ", "i", "s", " ", "a", "l", "w", "a", "y",
    "s", " ", "g", "o", "o", "d", " ", "b", "u", "t", " ", "a", "l", "w", "a", "y", "s", " ",
    "e", "n", "s", "u", "r", "e", " ", "w", "a", "t", "e", "r", " ", "i", "s", " ", "c", "l",
    "e", "a", "n", ".">>
Water == <<"w", "a", "t", "e", "r">>
Always == <<"a", "l", "w", "a", "y", "s">>

\* patterns and lookbehinds of add_lookbehind: raw text, a compiled pattern,
\* and an object that is no pattern
LookPatterns ==
  {Str(Water), Str(<<"\\", "b">> \o Water \o <<"\\", "b">>), Compiled(Water, {}), Other}
Lookbehinds == {Str(Always), Str(<<"a", ".">>), Other}

\* the caller makes one call of a pattern creation function
CombineInit ==
  /\ NoUsageCall
  /\ fn = "none"
  /\ patterns \in PatternLists
  /\ case_sensitive \in BOOLEAN
  /\ use_word_boundaries \in BOOLEAN
  /\ delimiter \in Delimiters
  /\ lookbehind = Other
  /\ window = 0
  /\ positive = TRUE
  /\ cpc = "ready"
  /\ out = Raise("none")
  /\ op = "contains_match"
  /\ texts = <<>>
  /\ pattern \in (IF patterns = <<>> THEN LookPatterns ELSE {Other})
  /\ n_workers = [given |-> FALSE, n |-> 0]
  /\ pc = "idle"
  /\ nw = 0
  /\ i = 0
  /\ results = <<>>
  /\ raised = NoError
  /\ poolState = "none"
  /\ wtask = <<>>
  /\ taskq = <<>>
  /\ chunksize = 0
  /\ mapValue = <<>>
  /\ mapSuccess = TRUE
  /\ mapError = NoError
  /\ numberLeft = 0
  /\ eventSet = FALSE
  /\ applied = <<>>
  /\ reordered = FALSE
  /\ dispatched = {}
  /\ firstFailed = NoError

CallCombineAny ==
  /\ cpc = "ready"
  /\ fn' = "combine_patterns_any"
  /\ out' = combine_patterns_any(patterns, case_sensitive, use_word_boundaries)
  /\ cpc' = "done"
  /\ UNCHANGED <<patterns, case_sensitive, use_word_boundaries, delimiter>>
  /\ UNCHANGED <<lookbehind, window, positive>>
  /\ UNCHANGED <<bvars, avars>>

CallCombineAll ==
  /\ cpc = "ready"
  /\ fn' = "combine_patterns_all"
  /\ out' = combine_patterns_all(patterns, delimiter, case_sensitive)
  /\ cpc' = "done"
  /\ UNCHANGED <<patterns, case_sensitive, use_word_boundaries, delimiter>>
  /\ UNCHANGED <<lookbehind, window, positive>>
  /\ UNCHANGED <<bvars, avars>>

\* make_optional takes exactly one argument
CallMakeOptional ==
  /\ cpc = "ready"
  /\ Len(patterns) = 1
  /\ fn' = "make_optional"
  /\ out' = make_optional(patterns[1])
  /\ cpc' = "done"
  /\ UNCHANGED <<patterns, case_sensitive, use_word_boundaries, delimiter>>
  /\ UNCHANGED <<lookbehind, window, positive>>
  /\ UNCHANGED <<bvars, avars>>

\* n_digits takes no pattern
CallNDigits ==
  /\ cpc = "ready"
  /\ patterns = <<>>
  /\ \E k \in -1..MaxDigits :
       /\ n' = k
       /\ out' = n_digits(k)
  /\ fn' = "n_digits"
  /\ cpc' = "done"
  /\ UNCHANGED <<patterns, case_sensitive, use_word_boundaries, delimiter>>
  /\ UNCHANGED <<lookbehind, window, positive>>
  /\ UNCHANGED <<func, text, include_match, start_pattern, end_pattern, include_matches,
                 apc, ret>>
  /\ UNCHANGED bvars

(***************************************************************************)
(* Bounded lookbehind (re_helper.py): the file defines add_lookbehind many  *)
(* times over; each definition modelled here is named after the line of    *)
(* its def statement                                                       *)
(***************************************************************************)
\* ---- bound of the lookbehind model ---------------------------------------
MaxWindow == 4

RECURSIVE ReEscape(_)
\* re.escape(s): a backslash before every special character
ReEscape(s) ==
  IF s = <<>> THEN <<>>
  ELSE (IF s[1] \in Special \cup {"-", "&", "~", "#", " ", "\n"}
        THEN <<"\\", s[1]>> ELSE <<s[1]>>) \o ReEscape(Tail(s))

\* line 952: up to n_words - 1 tokens between the lookbehind and the pattern
WordsWindow(l, k, p) ==
  <<"(">> \o l \o <<")", "(", "[", "^", " ", "\\", "|", ",", "]", "+", " ", ")", "{", "0", ",">>
  \o IntToStr(k - 1) \o <<"}", "(">> \o p \o <<")">>

\* lines 934-953: n_words is not checked and positive is not used
add_lookbehind_934(p, l, k, b) ==
  IF ~IsPatternOrStr(p) \/ ~IsPatternOrStr(l) THEN Raise("TypeError")
  ELSE ReCompile(WordsWindow(l.pattern, k, p.pattern), {})

\* line 975: the same with the token inside a negative lookahead
NotWordsWindow(l, k, p) ==
  <<"(">> \o l \o <<")", "(", "?", "!", " ", "[", "^", " ", "\\", "|", ",", "]", "+", " ", ")",
    "{", "0", ",">> \o IntToStr(k - 1) \o <<"}", "(">> \o p \o <<")">>

\* lines 957-976: n_words is not checked and positive is not used
add_lookbehind_957(p, l, k, b) ==
  IF ~IsPatternOrStr(p) \/ ~IsPatternOrStr(l) THEN Raise("TypeError")
  ELSE ReCompile(NotWordsWindow(l.pattern, k, p.pattern), {})

\* lines 1100 and 1102: a lookbehind of up to n_characters characters and the
\* escaped anchor, then a lookahead for (positive: against) the anchor
CharsWindow(l, k, p, b) ==
  <<"(", "?", "<", "=", ".", "{", "0", ",">> \o IntToStr(k) \o <<"}">> \o ReEscape(l)
  \o <<")", "(", "?", IF b THEN "!" ELSE "=">> \o ReEscape(l) \o <<")", ".", "*">> \o p

\* lines 1095-1104, for a pattern given as str: re.escape raises TypeError
\* for a lookbehind that is no str
add_lookbehind_1095(p, l, k, b) ==
  IF ~IsStr(l) THEN Raise("TypeError")
  ELSE ReCompile(CharsWindow(l.pattern, k, p.pattern, b), {})

\* lines 1264 and 1268: one lookbehind per width j in range(n_characters + 1);
\* the f-string writes .{i} as a dot followed by the digits of i
WidthPatterns(l, k, p, b) ==
  [j \in 1..(k + 1) |->
     <<"(", "?", "<", IF b THEN "=" ELSE "!", ".">> \o IntToStr(j - 1) \o ReEscape(l)
     \o <<")">> \o p]

\* lines 1257-1272, for a pattern given as str: re.escape runs once per width
\* and raises TypeError for a lookbehind that is no str
add_lookbehind_1257(p, l, k, b) ==
  IF k >= 0 /\ ~IsStr(l) THEN Raise("TypeError")
  ELSE ReCompile(Join(<<"|">>, WidthPatterns(l.pattern, k, p.pattern, b)), {})

\* the caller makes one call of a definition of add_lookbehind
CalledLookbehind(f, l, k, b, r) ==
  /\ cpc = "ready"
  /\ fn' = f
  /\ lookbehind' = l
  /\ window' = k
  /\ positive' = b
  /\ out' = r
  /\ cpc' = "done"
  /\ UNCHANGED <<patterns, case_sensitive, use_word_boundaries, delimiter>>
  /\ UNCHANGED <<bvars, avars>>

\* add_lookbehind takes a pattern and no *patterns
CallAddLookbehind934 ==
  /\ patterns = <<>>
  /\ \E l \in Lookbehinds, k \in -1..MaxWindow, b \in BOOLEAN :
       CalledLookbehind("add_lookbehind_934", l, k, b, add_lookbehind_934(pattern, l, k, b))

CallAddLookbehind957 ==
  /\ patterns = <<>>
  /\ \E l \in Lookbehinds, k \in -1..MaxWindow, b \in BOOLEAN :
       CalledLookbehind("add_lookbehind_957", l, k, b, add_lookbehind_957(pattern, l, k, b))

\* the pattern is a str
CallAddLookbehind1095 ==
  /\ patterns = <<>>
  /\ IsStr(pattern)
  /\ \E l \in Lookbehinds, k \in -1..MaxWindow, b \in BOOLEAN :
       CalledLookbehind("add_lookbehind_1095", l, k, b, add_lookbehind_1095(pattern, l, k, b))

CallAddLookbehind1257 ==
  /\ patterns = <<>>
  /\ IsStr(pattern)
  /\ \E l \in Lookbehinds, k \in -1..MaxWindow, b \in BOOLEAN :
       CalledLookbehind("add_lookbehind_1257", l, k, b, add_lookbehind_1257(pattern, l, k, b))

(***************************************************************************)
(* Calls of the pattern usage functions                                    *)
(***************************************************************************)
\* ---- bounds of the usage model -------------------------------------------
MaxUsageLen == 3
MaxTokens == 4
MaxWords == 3

\* the text and the pattern of the docstring example (lines 78-80)
ExampleText ==
  <<"T", "h", "e", " ", "q", "u", "i", "c", "k", " ", "b", "r", "o", "w", "n", " ",
    "f", "o", "x", " ", "j", "u", "m", "p", "s">>
ExamplePattern == Compiled(<<"f", "o", "x">>, {})

\* the text of the docstring example of extract_between_patterns (line 126)
BracketText ==
  <<"h", "e", "l", "l", "o", " ", "[", "w", "o", "r", "l", "d", "]", "!">>

\* texts: every text of up to MaxUsageLen characters, and the texts of up to
\* MaxTokens one-letter words separated by single spaces
UsageTexts ==
  {Str(t) : t \in UNION {[1..k -> {"a", "b", "A", " ", "\n"}] : k \in 0..MaxUsageLen}}
  \cup {Str([j \in 1..(2 * Len(w) - 1) |-> IF j % 2 = 1 THEN w[(j + 1) \div 2] ELSE " "]) :
          w \in UNION {[1..k -> {"a", "b"}] : k \in 1..MaxTokens}}
  \cup {Str(ExampleText), Str(BracketText)}
\* delimiting patterns: raw text, a pattern compiled with re.IGNORECASE, the
\* escaped brackets of the docstring example, and an object that is no pattern
StartPatterns ==
  {Str(<<"a">>), Compiled(<<"a">>, {IGNORECASE}), Str(<<"\\", "[">>), Other}
EndPatterns == {Str(<<"b">>), Str(<<"\\", "]">>), Other}
UsagePatterns ==
  { Str(<<"b">>), Compiled(<<"b">>, {}), Compiled(<<"b", "$">>, {}),
    Str(<<"b", "*">>), Compiled(<<"a">>, {IGNORECASE}), ExamplePattern, Other }

\* the caller makes one call of a pattern usage function
UsageInit ==
  /\ func = "none"
  /\ text \in UsageTexts
  /\ n = 0
  /\ include_match = TRUE
  /\ start_pattern = Other
  /\ end_pattern = Other
  /\ include_matches = FALSE
  /\ apc = "ready"
  /\ ret = Raise("none")
  /\ pattern \in UsagePatterns
  /\ fn = "none"
  /\ patterns = <<>>
  /\ case_sensitive = TRUE
  /\ use_word_boundaries = FALSE
  /\ delimiter = Other
  /\ lookbehind = Other
  /\ window = 0
  /\ positive = TRUE
  /\ cpc = "idle"
  /\ out = Raise("none")
  /\ op = "contains_match"
  /\ texts = <<>>
  /\ n_workers = [given |-> FALSE, n |-> 0]
  /\ pc = "idle"
  /\ nw = 0
  /\ i = 0
  /\ results = <<>>
  /\ raised = NoError
  /\ poolState = "none"
  /\ wtask = <<>>
  /\ taskq = <<>>
  /\ chunksize = 0
  /\ mapValue = <<>>
  /\ mapSuccess = TRUE
  /\ mapError = NoError
  /\ numberLeft = 0
  /\ eventSet = FALSE
  /\ applied = <<>>
  /\ reordered = FALSE
  /\ dispatched = {}
  /\ firstFailed = NoError

\* the call of f has returned or raised r
Returned(f, r) ==
  /\ apc = "ready"
  /\ func' = f
  /\ ret' = r
  /\ apc' = "done"
  /\ UNCHANGED text
  /\ UNCHANGED <<bvars, cvars>>

CallIsMatch ==
  /\ Returned("is_match", is_match(text, pattern))
  /\ UNCHANGED <<n, include_match, start_pattern, end_pattern, include_matches>>

CallCountMatches ==
  /\ Returned("count_matches", count_matches(text, pattern))
  /\ UNCHANGED <<n, include_match, start_pattern, end_pattern, include_matches>>

CallGetMatches ==
  /\ Returned("get_matches", get_matches(text, pattern))
  /\ UNCHANGED <<n, include_match, start_pattern, end_pattern, include_matches>>

CallContainsMatch ==
  /\ Returned("contains_match", contains_match(text, pattern))
  /\ UNCHANGED <<n, include_match, start_pattern, end_pattern, include_matches>>

CallGetWordsBefore ==
  \E k \in 1..MaxWords, im \in BOOLEAN :
    /\ n' = k
    /\ include_match' = im
    /\ Returned("get_words_before_pattern", get_words_before_pattern(text, pattern, k, im))
    /\ UNCHANGED <<start_pattern, end_pattern, include_matches>>

\* extract_between_patterns takes two delimiting patterns and no pattern
CallExtractBetween ==
  /\ pattern = Other
  /\ \E s \in StartPatterns, e \in EndPatterns, im \in BOOLEAN :
       /\ start_pattern' = s
       /\ end_pattern' = e
       /\ include_matches' = im
       /\ Returned("extract_between_patterns", extract_between_patterns(text, s, e, im))
  /\ UNCHANGED <<n, include_match>>

vars == <<bvars, cvars, avars>>

Init == BatchInit \/ CombineInit \/ UsageInit

Next ==
  \/ Call
  \/ SeqStep
  \/ SeqReturn
  \/ PoolCreate
  \/ Starmap
  \/ \E w \in DOMAIN wtask : WorkerTake(w)
  \/ \E w \in DOMAIN wtask : WorkerRun(w)
  \/ CallerWake
  \/ CallCombineAny
  \/ CallCombineAll
  \/ CallMakeOptional
  \/ CallNDigits
  \/ CallAddLookbehind934
  \/ CallAddLookbehind957
  \/ CallAddLookbehind1095
  \/ CallAddLookbehind1257
  \/ CallIsMatch
  \/ CallCountMatches
  \/ CallGetMatches
  \/ CallContainsMatch
  \/ CallGetWordsBefore
  \/ CallExtractBetween

Spec == Init /\ [][Next]_vars

(***************************************************************************)
(* Properties of the batch functions                                       *)
(***************************************************************************)
\* the call went through the pool and has come back to the caller
ParallelDone(state) == pc = state /\ poolState = "terminated"

\* C1: on the parallel path, whatever the order in which the workers took and
\* finished their chunks, the returned list has one entry per text and
\* results[k] is the operation's result for texts[k].
C1_ResultsInInputOrder ==
  ParallelDone("returned") =>
    /\ Len(results) = Len(texts)
    /\ \A k \in 1..Len(texts) :
         LET r == ApplyOp(op, texts[k], pattern) IN r.ok /\ results[k] = r.val

\* a parallel call has returned two different results after the second chunk
\* finished ahead of the first
C1_Witness ==
  /\ ParallelDone("returned")
  /\ reordered
  /\ Len(texts) = 2
  /\ results[1] # results[2]

\* C2: a batch call that returns, on either path and for every worker count,
\* returns the list [operation(t, pattern) for t in texts]; the list is
\* determined by the operation, the texts and the pattern alone.
C2_SameAsSingleText ==
  pc = "returned" =>
    /\ nw >= 1
    /\ DOMAIN results = DOMAIN texts
    /\ \A k \in DOMAIN texts : ApplyOp(op, texts[k], pattern) = Ok(results[k])

\* a sequential call with an IGNORECASE pattern has returned two different
\* results
C2_Witness ==
  /\ pc = "returned"
  /\ poolState = "none"
  /\ Len(texts) = 2
  /\ IGNORECASE \in pattern.flags
  /\ results[1] # results[2]

\* C3 as stated: a finished call has created no pool exactly when
\* len(texts) < n_workers, and in every other case has created a pool of
\* n_workers workers and dispatched every text to it.
C3_PoolUnlessFewerTextsThanWorkers ==
  pc \in {"returned", "raised"} =>
    IF Len(texts) < nw
    THEN poolState = "none"
    ELSE /\ poolState # "none"
         /\ Len(wtask) = nw
         /\ dispatched = 1..Len(texts)

\* C3, amended: for n_workers >= 1 (given, or the CPU count) the call runs in
\* the caller without a pool exactly when len(texts) < n_workers, and
\* otherwise creates a pool of n_workers workers and dispatches every text;
\* for n_workers < 1 the call never runs sequentially, creates no pool and
\* raises ValueError.
C3_PoolForPositiveWorkerCount ==
  /\ pc \notin {"call", "idle"} =>
       nw = (IF n_workers.given THEN n_workers.n ELSE CpuCount)
  /\ pc = "sequential" => Len(texts) < nw /\ poolState = "none"
  /\ poolState # "none" => nw >= 1 /\ Len(texts) >= nw /\ Len(wtask) = nw
  /\ pc \in {"returned", "raised"} =>
       IF nw < 1
       THEN poolState = "none" /\ pc = "raised" /\ raised = Error("ValueError", 0)
       ELSE IF Len(texts) < nw
       THEN poolState = "none" /\ dispatched = {}
       ELSE /\ poolState = "terminated"
            /\ Len(wtask) = nw
            /\ dispatched = 1..Len(texts)

\* a call with as many texts as workers has gone through a pool of two
C3_Witness ==
  /\ ParallelDone("returned")
  /\ Len(texts) = nw
  /\ Len(wtask) = 2
  /\ dispatched = {1, 2}

\* C4: on the parallel path the caller holds no result list while a chunk is
\* unfinished, and the list it gets is complete: every chunk is done, the
\* operation has run on every text and every slot is filled.
C4_ReturnsAfterAllTasks ==
  /\ pc \in {"pool", "starmap", "waiting"} => results = <<>>
  /\ ParallelDone("returned") =>
       /\ numberLeft = 0
       /\ taskq = <<>>
       /\ \A k \in 1..Len(texts) : applied[k] >= 1 /\ mapValue[k] # <<>>
       /\ Len(results) = Len(texts)

\* a parallel call of two chunks has returned
C4_Witness ==
  /\ ParallelDone("returned")
  /\ chunksize = 1
  /\ Len(texts) = 2
  /\ applied = <<1, 1>>

\* C5 as stated: once a chunk has failed the caller is released, without
\* waiting for the chunks still to finish, and no list is returned.
C5_FailFast ==
  /\ (pc = "waiting" /\ ~mapSuccess) => eventSet
  /\ pc = "returned" => mapSuccess

\* C5, amended: when the operation fails in a parallel batch, the call raises
\* the first failure a worker reported, but only after every chunk has
\* finished; the caller stays blocked while a chunk is unfinished, and no
\* result list, partial or whole, is returned.
C5_RaisesFirstFailureAfterAllTasks ==
  /\ (pc = "waiting" /\ numberLeft > 0) => ~eventSet
  /\ ParallelDone("raised") =>
       /\ numberLeft = 0
       /\ taskq = <<>>
       /\ firstFailed # NoError
       /\ raised = firstFailed
       /\ results = <<>>
  /\ ParallelDone("returned") => mapSuccess /\ firstFailed = NoError

\* the first chunk failed first, the second chunk still ran, and the call
\* then raised the first chunk's exception
C5_Witness ==
  /\ ParallelDone("raised")
  /\ ~reordered
  /\ Len(texts) = 2
  /\ raised.at = 1
  /\ applied[2] = 1

(***************************************************************************)
(* Frame property                                                          *)
(***************************************************************************)
\* C6: no step of any operation (pattern creation function, single-text
\* operation, batch function on either path, worker) changes the caller's
\* texts, pattern (text and flags) or pattern arguments.
C6_InputsUnchanged ==
  [][/\ texts' = texts
     /\ pattern' = pattern
     /\ patterns' = patterns
     /\ delimiter' = delimiter]_vars

\* a parallel call on a compiled pattern has run the operation on both texts
C6_Witness ==
  /\ ParallelDone("returned")
  /\ IsPattern(pattern)
  /\ Len(texts) = 2
  /\ applied = <<1, 1>>

(***************************************************************************)
(* Properties of combine_patterns_any and combine_patterns_all             *)
(***************************************************************************)
\* bound on the length of the texts the combined patterns are tried on
MaxTextLen == 2
ProbeTexts ==
  {Str(t) : t \in UNION {[1..k -> {"a", "b", "A"}] : k \in 0..MaxTextLen}}

\* combine_patterns_any has returned a pattern for at least one input
AnyReturned == cpc = "done" /\ fn = "combine_patterns_any" /\ out.ok /\ Len(patterns) >= 1

\* xs[1] | xs[2] | ... | xs[n], built from the left
Alternation(xs) ==
  LET f[k \in 0..Len(xs)] ==
        IF k = 0 THEN <<>>
        ELSE IF k = 1 THEN xs[1]
        ELSE f[k - 1] \o <<"|">> \o xs[k]
  IN f[Len(xs)]

\* the sub-pattern texts as they enter the alternation
Normalized ==
  [k \in 1..Len(patterns) |->
     IF case_sensitive THEN patterns[k].pattern
     ELSE <<"(", "?", "i", ":">> \o patterns[k].pattern \o <<")">>]

\* C7: the text of the result is the '|'-join of the sub-patterns inside one
\* non-capturing group, with or without use_word_boundaries; with
\* use_word_boundaries a \b stands before and after the group, outside it.
C7_GroupedAlternation ==
  AnyReturned =>
    LET group == <<"(", "?", ":">> \o Alternation(Normalized) \o <<")">>
    IN out.val.pattern =
         (IF use_word_boundaries THEN <<"\\", "b">> \o group \o <<"\\", "b">>
          ELSE group)

\* two sub-patterns combined with word boundaries
C7_Witness ==
  /\ AnyReturned
  /\ Len(patterns) = 2
  /\ use_word_boundaries
  /\ case_sensitive
  /\ out.val.pattern =
       <<"\\", "b", "(", "?", ":", "a", "|", "b", ")", "\\", "b">>

\* combine_patterns_any(*patterns) with its default keyword arguments
AnyDefaultCall ==
  /\ cpc = "done"
  /\ fn = "combine_patterns_any"
  /\ case_sensitive
  /\ ~use_word_boundaries
  /\ Len(patterns) >= 1

\* x is a pattern or a str whose text compiles
ValidFragment(x) == IsPatternOrStr(x) /\ ReCompile(x.pattern, x.flags).ok

\* the combined pattern is found in t exactly when one of the fragments is
MatchesAsAnyOf(t) ==
  /\ out.ok
  /\ contains_match(t, out.val) =
       Ok(\E k \in 1..Len(patterns) : contains_match(t, patterns[k]) = Ok(TRUE))

\* C8 as stated: for all valid fragments and every text t,
\* contains_match(t, combine_patterns_any(a, b)) is true exactly when
\* contains_match(t, a) or contains_match(t, b) is.
C8_AlternationComplete ==
  (AnyDefaultCall /\ \A k \in 1..Len(patterns) : ValidFragment(patterns[k])) =>
    \A t \in ProbeTexts : MatchesAsAnyOf(t)

\* C8, amended: the equivalence holds for valid fragments that carry no
\* compile flag (raw text, or a pattern compiled without flags); the flags of
\* a compiled fragment do not reach the combined pattern.
C8_AlternationCompleteWithoutFlags ==
  (/\ AnyDefaultCall
   /\ \A k \in 1..Len(patterns) : ValidFragment(patterns[k]) /\ patterns[k].flags = {})
    => \A t \in ProbeTexts : MatchesAsAnyOf(t)

\* a raw and a compiled fragment combined: the result is found in a text
\* that holds only the second and not in a text that holds neither
C8_Witness ==
  /\ AnyDefaultCall
  /\ patterns = <<Str(<<"a">>), Compiled(<<"b">>, {})>>
  /\ out.ok
  /\ contains_match(Str(<<"A", "b">>), out.val) = Ok(TRUE)
  /\ contains_match(Str(<<"A", "A">>), out.val) = Ok(FALSE)

\* the number of places where an inline scope (?i: opens in s
InlineScopes(s) ==
  Cardinality({k \in 1..Len(s) :
                 k + 3 <= Len(s) /\ SubSeq(s, k, k + 3) = <<"(", "?", "i", ":">>})

\* C9: with case_sensitive false every sub-pattern stands in an inline scope
\* (?i:...) of its own, so the result's text compiled without any flag is
\* found in the same texts as the result and (without word boundaries) in
\* exactly the texts where some sub-pattern is found ignoring case; with
\* case_sensitive true no sub-pattern is wrapped and the result carries no
\* IGNORECASE flag.
C9_InlineCaseScopes ==
  AnyReturned =>
    IF case_sensitive
    THEN /\ InlineScopes(out.val.pattern) = 0
         /\ out.val.flags = {}
    ELSE /\ InlineScopes(out.val.pattern) = Len(patterns)
         /\ \A k \in 1..Len(patterns) :
              \E p \in 1..Len(out.val.pattern) :
                SubSeq(out.val.pattern, p, p + Len(patterns[k].pattern) + 4)
                  = <<"(", "?", "i", ":">> \o patterns[k].pattern \o <<")">>
         /\ \A t \in ProbeTexts :
              /\ contains_match(t, Str(out.val.pattern)) = contains_match(t, out.val)
              /\ ~use_word_boundaries =>
                   contains_match(t, Str(out.val.pattern)) =
                     Ok(\E k \in 1..Len(patterns) :
                          contains_match(t, Compiled(patterns[k].pattern, {IGNORECASE}))
                            = Ok(TRUE))

\* two lower-case sub-patterns combined with case_sensitive false: the text
\* of the result alone is found in an upper-case text
C9_Witness ==
  /\ AnyReturned
  /\ ~case_sensitive
  /\ patterns = <<Str(<<"a">>), Str(<<"b">>)>>
  /\ contains_match(Str(<<"A">>), Str(out.val.pattern)) = Ok(TRUE)

\* C10: a call of combine_patterns_any or combine_patterns_all with no
\* sub-pattern fails and returns no pattern.
C10_EmptyCombinationFails ==
  (/\ cpc = "done"
   /\ fn \in {"combine_patterns_any", "combine_patterns_all"}
   /\ patterns = <<>>) => ~out.ok

\* C11: combine_patterns_any, combine_patterns_all and make_optional raise
\* TypeError whenever some input, at any position, is neither a str nor a
\* compiled pattern, and return no pattern, however many valid inputs come
\* before it.
C11_TypeErrorAtAnyPosition ==
  (/\ cpc = "done"
   /\ fn \in {"combine_patterns_any", "combine_patterns_all", "make_optional"}
   /\ \E k \in 1..Len(patterns) : patterns[k] = Other)
    => out = Raise("TypeError")

\* combine_patterns_all has raised for an invalid input that follows a valid one
C11_Witness ==
  /\ cpc = "done"
  /\ fn = "combine_patterns_all"
  /\ patterns = <<Str(<<"a">>), Other>>
  /\ out = Raise("TypeError")

\* combine_patterns_all has returned a pattern for at least one input
AllReturned == cpc = "done" /\ fn = "combine_patterns_all" /\ out.ok /\ Len(patterns) >= 1

\* xs[1] d xs[2] d ... d xs[n], built from the left
Interleaved(xs, d) ==
  LET f[k \in 0..Len(xs)] ==
        IF k = 0 THEN <<>>
        ELSE IF k = 1 THEN xs[1]
        ELSE f[k - 1] \o d \o xs[k]
  IN f[Len(xs)]

\* C12: for k >= 1 inputs the text of combine_patterns_all's result is the
\* sub-pattern texts in argument order with the delimiter ('' for None)
\* between consecutive ones only, k-1 times, nothing before the first or after
\* the last, and no grouping added.
C12_DelimiterBetweenOnly ==
  AllReturned =>
    LET d == IF delimiter = Other THEN <<>> ELSE delimiter.pattern
        xs == [k \in 1..Len(patterns) |-> patterns[k].pattern]
        total == Len(Flat(xs)) + (Len(patterns) - 1) * Len(d)
    IN /\ out.val.pattern = Interleaved(xs, d)
       /\ Len(out.val.pattern) = total
       /\ SubSeq(out.val.pattern, 1, Len(xs[1])) = xs[1]
       /\ SubSeq(out.val.pattern, total - Len(xs[Len(xs)]) + 1, total) = xs[Len(xs)]

\* two sub-patterns with a delimiter of None, and with a delimiter of ' '
C12_Witness ==
  /\ AllReturned
  /\ Len(patterns) = 2
  /\ \/ delimiter = Other /\ out.val.pattern = <<"a", "b">>
     \/ delimiter = Str(<<" ">>) /\ out.val.pattern = <<"a", " ", "b">>

\* combine_patterns_any(p) is found in, and matches at the start of, the same
\* texts as p
SameMatchesAsOnlyInput ==
  \A t \in ProbeTexts :
    /\ contains_match(t, out.val) = contains_match(t, patterns[1])
    /\ is_match(t, out.val) = is_match(t, Compiled(patterns[1].pattern, patterns[1].flags))

\* C13 as stated: combine_patterns_all(p), for any delimiter, has the text of
\* p unchanged; combine_patterns_any(p) has that text inside (?:...) only, and
\* matches exactly the texts p matches.
C13_SingleArgument ==
  /\ (AllReturned /\ Len(patterns) = 1) => out.val.pattern = patterns[1].pattern
  /\ (AnyDefaultCall /\ Len(patterns) = 1 /\ ValidFragment(patterns[1])) =>
       /\ out.ok
       /\ out.val.pattern = <<"(", "?", ":">> \o patterns[1].pattern \o <<")">>
       /\ SameMatchesAsOnlyInput

\* C13, amended: the texts are as stated; combine_patterns_any(p) matches
\* exactly the texts p matches when p carries no compile flag (raw text, or a
\* pattern compiled without flags).
C13_SingleArgumentWithoutFlags ==
  /\ (AllReturned /\ Len(patterns) = 1) => out.val.pattern = patterns[1].pattern
  /\ (AnyDefaultCall /\ Len(patterns) = 1 /\ ValidFragment(patterns[1])) =>
       /\ out.ok
       /\ out.val.pattern = <<"(", "?", ":">> \o patterns[1].pattern \o <<")">>
       /\ patterns[1].flags = {} => SameMatchesAsOnlyInput

\* combine_patterns_all with one sub-pattern and a delimiter of ' '
C13_Witness ==
  /\ AllReturned
  /\ patterns = <<Str(<<"a", "|", "b">>)>>
  /\ delimiter = Str(<<" ">>)
  /\ out.val.pattern = <<"a", "|", "b">>

\* the compiled pattern c matches the whole of t (Pattern.fullmatch)
Accepts(c, t) ==
  LET pr == Parse(c.pattern)
      ends == M(pr.n, t, MSt(1, NoCaps(pr.g)), IGNORECASE \in c.flags)
  IN \E k \in 1..Len(ends) : ends[k].pos = Len(t) + 1

\* make_optional(p) and make_optional(make_optional(p)) = again differ in
\* text and accept, and find, the same
SameLanguage(once, again) ==
  /\ again.ok
  /\ again.val.pattern # once.pattern
  /\ \A t \in ProbeTexts :
       /\ Accepts(again.val, t.pattern) = Accepts(once, t.pattern)
       /\ get_matches(t, again.val) = get_matches(t, once)

\* C14: make_optional returns the text of its input wrapped as (?:X)?, and
\* make_optional(make_optional(p)) accepts exactly the strings
\* make_optional(p) accepts, although the two texts differ.
C14_OptionalIdempotent ==
  (cpc = "done" /\ fn = "make_optional" /\ out.ok) =>
    /\ out.val.pattern = <<"(", "?", ":">> \o patterns[1].pattern \o <<")", "?">>
    /\ SameLanguage(out.val, make_optional(out.val))

\* make_optional of an alternation: the result accepts the empty string and
\* each branch
C14_Witness ==
  /\ cpc = "done"
  /\ fn = "make_optional"
  /\ patterns = <<Str(<<"a", "|", "b">>)>>
  /\ out.ok
  /\ Accepts(out.val, <<>>)
  /\ Accepts(out.val, <<"b">>)
  /\ ~Accepts(out.val, <<"a", "b">>)

\* C15: n_digits(n) fails for every n < 0 and returns no fragment; for n >= 0
\* it returns the text \d{n}.
C15_NegativeDigitCountFails ==
  (cpc = "done" /\ fn = "n_digits") =>
    IF n < 0 THEN ~out.ok
    ELSE out = Ok(Str(<<"\\", "d", "{">> \o IntToStr(n) \o <<"}">>))

\* is_match has returned for a compiled pattern
IsMatchReturned == apc = "done" /\ func = "is_match" /\ IsPattern(pattern)

\* the pattern is found at index 0 of the text: ^(?:p), with p's flags, is
\* found in it
MatchesAtStart(c, t) ==
  contains_match(t, Compiled(<<"^", "(", "?", ":">> \o c.pattern \o <<")">>, c.flags)).val

\* the pattern's text ends with the end anchor $
EndAnchored(c) == Len(c.pattern) >= 1 /\ c.pattern[Len(c.pattern)] = "$"

\* the index after the match Pattern.match finds
MatchEnd(c, t) ==
  MatchAt(Parse(c.pattern), t, 1, IGNORECASE \in c.flags, FALSE).e

UsageCall(f, t, p, k, im) ==
  CASE f = "is_match" -> is_match(t, p)
    [] f = "contains_match" -> contains_match(t, p)
    [] f = "count_matches" -> count_matches(t, p)
    [] f = "get_matches" -> get_matches(t, p)
    [] f = "get_words_before_pattern" -> get_words_before_pattern(t, p, k, im)

\* C17: given a pattern as raw text, every match facade operation and every
\* batch function returns, without error, what it returns for the flag-free
\* compiled form of the same text.
C17_RawTextAsCompiled ==
  /\ (apc = "done" /\ IsStr(pattern)) =>
       /\ ret.ok
       /\ ret = UsageCall(func, text, Compiled(pattern.pattern, {}), n, include_match)
  /\ (pc \in {"returned", "raised"} /\ IsStr(pattern) /\ nw >= 1
        /\ \A k \in DOMAIN texts : IsStr(texts[k])) =>
       /\ pc = "returned"
       /\ \A k \in DOMAIN texts :
            Ok(results[k]) = ApplyOp(op, texts[k], Compiled(pattern.pattern, {}))

\* the matches count_matches iterates over
MatchesOf(c, t) == PatternFinditer(c, Parse(c.pattern), t)
CountedMatches == MatchesOf(CompileArg(pattern).val, text.pattern)

\* ms are the matches found scanning t from left to right: each starts at or
\* after the end of the one before and is the first match at the leftmost
\* index where one exists from there on (an empty match is not taken where
\* an empty match has just ended), and no match exists after the last
LeftToRight(ms, pr, t, ic) ==
  LET from(k) == IF k = 1 THEN 1 ELSE ms[k - 1].e
      advance(k, s) == k > 1 /\ s = ms[k - 1].e /\ ms[k - 1].s = ms[k - 1].e
  IN /\ \A k \in 1..Len(ms) :
          /\ ms[k].s >= from(k)
          /\ ms[k].e >= ms[k].s
          /\ ms[k] = MatchAt(pr, t, ms[k].s, ic, advance(k, ms[k].s))
          /\ ms[k].found
          /\ \A s \in from(k)..(ms[k].s - 1) : ~MatchAt(pr, t, s, ic, advance(k, s)).found
     /\ \A s \in from(Len(ms) + 1)..(Len(t) + 1) :
          ~MatchAt(pr, t, s, ic, advance(Len(ms) + 1, s)).found

ScannedLeftToRight(c, t) ==
  LeftToRight(MatchesOf(c, t), Parse(c.pattern), t, IGNORECASE \in c.flags)

\* C18: count_matches is the number of non-overlapping matches found scanning
\* left to right, each scan resuming at the end of the previous match; it is
\* the number of entries of get_matches, and contains_match is true exactly
\* when it is at least 1.
C18_CountsNonOverlapping ==
  (apc = "done" /\ func = "count_matches" /\ ret.ok) =>
    /\ ret.val = Len(CountedMatches)
    /\ ScannedLeftToRight(CompileArg(pattern).val, text.pattern)
    /\ ret.val = Len(get_matches(text, pattern).val)
    /\ contains_match(text, pattern).val = (ret.val >= 1)

\* b* on 'bb': the whole text, then the empty match at its end
C18_Witness ==
  /\ apc = "done"
  /\ func = "count_matches"
  /\ pattern = Str(<<"b", "*">>)
  /\ text = Str(<<"b", "b">>)
  /\ ret = Ok(2)

\* get_words_before_pattern has returned a list
WordsBeforeReturned == apc = "done" /\ func = "get_words_before_pattern" /\ ret.ok

\* len(s.split()): the number of whitespace-delimited tokens of s
TokenCount(s) ==
  Cardinality({k \in 1..Len(s) : s[k] \notin SpaceChars /\ (k = 1 \/ s[k - 1] \in SpaceChars)})

\* the matches behind the returned entries, with the pattern's own match
\* recorded as group 2 (group 1 is the returned entry)
EntryMatchesOf(p, t, k, im) ==
  CHOOSE ms \in {PatternFinditer(Compiled(<<>>, {}), pr, t) :
                   pr \in {Parse(NWordsPattern(<<"(">> \o p \o <<")">>, k, im))}} : TRUE
EntryMatches == EntryMatchesOf(pattern.pattern, text.pattern, n, include_match)

\* the tokens of the entry m that precede the pattern's match, and the tokens
\* of the whole text that precede it
TokensInEntry(t, m) == TokenCount(SubSeq(t, m.caps[1][1], m.caps[2][1] - 1))
TokensBefore(t, m) == TokenCount(SubSeq(t, 1, m.caps[2][1] - 1))

\* C19: no string returned by get_words_before_pattern holds more than n
\* tokens before the match, and one holds fewer than n only when fewer than n
\* tokens exist in the text before that match.
C19_AtMostNTokensFewerOnlyIfFewerExist ==
  WordsBeforeReturned =>
    \A ms \in {EntryMatches} :
      /\ Len(ret.val) = Len(ms)
      /\ \A k \in 1..Len(ms) :
           /\ ret.val[k] = Slice(text.pattern, ms[k].caps[1])
           /\ TokensInEntry(text.pattern, ms[k]) <= n
           /\ TokensInEntry(text.pattern, ms[k]) < n => TokensBefore(text.pattern, ms[k]) < n

\* C20: get_words_before_pattern returns one entry for every match of the
\* pattern in the text, also for a match at the very start of the text and
\* for one whose preceding tokens an earlier entry has consumed, and never
\* fails for such a match.
C20_OneEntryPerMatch ==
  (apc = "done" /\ func = "get_words_before_pattern" /\ count_matches(text, pattern).ok) =>
    /\ ret.ok
    /\ Len(ret.val) = count_matches(text, pattern).val

\* the call of the docstring example, with include_match = True
ExampleCall ==
  /\ WordsBeforeReturned
  /\ text = Str(ExampleText)
  /\ pattern = ExamplePattern
  /\ n = 3
  /\ include_match

\* C21 as stated: on "The quick brown fox jumps" with fox and n = 3 the result
\* is ["quick brown fox"], a window of 3 tokens ending at and including the
\* match; with include_match = False the match is in no returned string.
C21_WindowIncludesMatch ==
  /\ ExampleCall =>
       ret.val = << <<"q", "u", "i", "c", "k", " ", "b", "r", "o", "w", "n", " ", "f", "o", "x">> >>
  /\ WordsBeforeReturned =>
       \A ms \in {EntryMatches} : \A k \in 1..Len(ms) :
         IF include_match
         THEN /\ ms[k].caps[1][2] = ms[k].caps[2][2]
              /\ TokenCount(ret.val[k]) <= n
         ELSE ms[k].caps[1][2] < ms[k].caps[2][1]

\* C21, amended: the example returns ["The quick brown fox"]; with
\* include_match = True every returned string is 1 to n tokens, whitespace and
\* then the matched text, which ends it; with include_match = False it is 1 to
\* n tokens and ends before the whitespace in front of the match.
C21_WindowBeforeMatch ==
  /\ ExampleCall => ret.val = <<SubSeq(ExampleText, 1, 19)>>
  /\ WordsBeforeReturned =>
       \A ms \in {EntryMatches} :
         /\ Len(ret.val) = Len(ms)
         /\ \A k \in 1..Len(ms) :
              /\ ret.val[k] = Slice(text.pattern, ms[k].caps[1])
              /\ TokensInEntry(text.pattern, ms[k]) \in 1..n
              /\ ms[k].caps[2][1] > 1
              /\ text.pattern[ms[k].caps[2][1] - 1] \in SpaceChars
              /\ IF include_match
                 THEN ms[k].caps[1][2] = ms[k].caps[2][2]
                 ELSE ms[k].caps[1][2] < ms[k].caps[2][1]

\* the example call has returned the three words before fox, and fox
C21_Witness ==
  /\ ExampleCall
  /\ Len(ret.val) = 1
  /\ TokenCount(ret.val[1]) = 4

\* a call of extract_between_patterns has returned a list
ExtractReturned == apc = "done" /\ func = "extract_between_patterns" /\ ret.ok

\* the matches behind the returned spans, with the match of the start text
\* recorded as group 1, the text between as group 2 and the match of the end
\* text as group 3
DelimitedMatchesOf(s, e, t) ==
  CHOOSE ms \in {PatternFinditer(Compiled(<<>>, {}), pr, t) :
                   pr \in {WithFlags(Parse(<<"(">> \o s \o <<")", "(", ".", "*", "?", ")", "(">>
                                            \o e \o <<")">>), {DOTALL})}} : TRUE
DelimitedMatches ==
  DelimitedMatchesOf(start_pattern.pattern, end_pattern.pattern, text.pattern)

\* C22: with include_matches=True every returned span begins with the text
\* matched by start_pattern and ends with the text matched by end_pattern
\* ('[world]' for 'hello [world]!'); with include_matches=False it holds
\* neither delimiting match ('world').
C22_SpansIncludeDelimiters ==
  ExtractReturned =>
    \A ms \in {DelimitedMatches} :
      /\ Len(ret.val) = Len(ms)
      /\ \A k \in 1..Len(ms) :
           ret.val[k] = IF include_matches
                        THEN SubSeq(text.pattern, ms[k].s, ms[k].e - 1)
                        ELSE Slice(text.pattern, ms[k].caps[2])

\* no span starts at index p of t: the start pattern does not match there,
\* or no match of the end pattern follows its match
NoSpanFrom(ps, ics, pe, ice, t, p, a) ==
  a.found => \A q \in a.e..(Len(t) + 1) : ~MatchAt(pe, t, q, ice, FALSE).found

\* the spans v are those of the delimited matches ms of t: each runs from the
\* end of a match of the start pattern ps to the first match of the end
\* pattern pe from there on (to its end, when the end match is included),
\* the matches follow each other from left to right without overlap, and
\* every start match outside them has no end match after it
SpansOf(ms, ps, ics, pe, ice, t, v, im) ==
  /\ Len(v) = Len(ms)
  /\ \A k \in 1..Len(ms) :
       /\ v[k] = SubSeq(t, ms[k].caps[2][1],
                        (IF im THEN ms[k].e ELSE ms[k].caps[2][2]) - 1)
       /\ MatchAt(ps, t, ms[k].s, ics, FALSE).found
       /\ MatchAt(ps, t, ms[k].s, ics, FALSE).e = ms[k].caps[2][1]
       /\ MatchAt(pe, t, ms[k].caps[2][2], ice, FALSE).found
       /\ MatchAt(pe, t, ms[k].caps[2][2], ice, FALSE).e = ms[k].e
       /\ \A q \in ms[k].caps[2][1]..(ms[k].caps[2][2] - 1) :
            ~MatchAt(pe, t, q, ice, FALSE).found
       /\ k > 1 => ms[k].s >= ms[k - 1].e
       /\ \A p \in (IF k = 1 THEN 1 ELSE ms[k - 1].e)..(ms[k].s - 1) :
            NoSpanFrom(ps, ics, pe, ice, t, p, MatchAt(ps, t, p, ics, FALSE))
  /\ \A p \in (IF ms = <<>> THEN 1 ELSE ms[Len(ms)].e)..(Len(t) + 1) :
       NoSpanFrom(ps, ics, pe, ice, t, p, MatchAt(ps, t, p, ics, FALSE))

\* C23: extract_between_patterns returns, from left to right, the shortest
\* span from each match of start_pattern to the next match of end_pattern
\* after it; the spans do not overlap, a span may cross line boundaries, and
\* a start match with no later end match contributes nothing.
C23_ShortestSpansLeftToRight ==
  ExtractReturned =>
    \A ms \in {DelimitedMatches} :
      \A ps \in {Parse(start_pattern.pattern)} : \A pe \in {Parse(end_pattern.pattern)} :
        SpansOf(ms, ps, IGNORECASE \in start_pattern.flags,
                pe, IGNORECASE \in end_pattern.flags, text.pattern, ret.val, include_matches)

\* the same for the matches of the delimiters' texts, their flags set aside
SpansOfDelimiterTexts ==
  ExtractReturned =>
    \A ms \in {DelimitedMatches} :
      \A ps \in {Parse(start_pattern.pattern)} : \A pe \in {Parse(end_pattern.pattern)} :
        SpansOf(ms, ps, FALSE, pe, FALSE, text.pattern, ret.val, include_matches)

(***************************************************************************)
(* Properties of the bounded lookbehind                                    *)
(***************************************************************************)
LookbehindDefinitions ==
  {"add_lookbehind_934", "add_lookbehind_957", "add_lookbehind_1095", "add_lookbehind_1257"}

\* a call of a definition of add_lookbehind has returned or raised
LookbehindCalled == cpc = "done" /\ fn \in LookbehindDefinitions

\* what the definition f gives for the arguments
LookbehindOf(f, p, l, k, b) ==
  CASE f = "add_lookbehind_934" -> add_lookbehind_934(p, l, k, b)
    [] f = "add_lookbehind_957" -> add_lookbehind_957(p, l, k, b)
    [] f = "add_lookbehind_1095" -> add_lookbehind_1095(p, l, k, b)
    [] f = "add_lookbehind_1257" -> add_lookbehind_1257(p, l, k, b)

\* C24: add_lookbehind fails with an invalid-argument error whenever the
\* window (n_words or n_characters) is less than 1, and returns no pattern.
C24_WindowBelowOneFails ==
  (LookbehindCalled /\ window < 1) => ~out.ok

\* the call of the example: target water, anchor always, a window of 4,
\* negative polarity
WaterCall ==
  /\ LookbehindCalled
  /\ pattern \in {Str(Water), Str(<<"\\", "b">> \o Water \o <<"\\", "b">>)}
  /\ lookbehind = Str(Always)
  /\ window = 4
  /\ ~positive

\* C25: with negative polarity the pattern matches the target only where the
\* anchor does not occur in the preceding window, and differs from the
\* pattern of positive polarity: on "The water is always good but always
\* ensure water is clean." with target water, anchor always and a window of
\* 4, only the first occurrence of water (characters 5 to 9) matches.
C25_NegativeExcludesAnchorInWindow ==
  WaterCall =>
    /\ out.ok
    /\ out # LookbehindOf(fn, pattern, lookbehind, window, TRUE)
    /\ \A ms \in {MatchesOf(out.val, WaterText)} :
         /\ Len(ms) = 1
         /\ ms[1].e = 10
         /\ SubSeq(WaterText, ms[1].e - 5, ms[1].e - 1) = Water

(***************************************************************************)
(* Properties of the flags of created patterns                             *)
(***************************************************************************)
\* a call of combine_patterns_any, combine_patterns_all or make_optional has
\* returned a pattern
CreatedPattern ==
  /\ cpc = "done"
  /\ fn \in {"combine_patterns_any", "combine_patterns_all", "make_optional"}
  /\ out.ok

\* the inputs xs as raw text, whatever they were compiled with
AsRawText(xs) == [k \in 1..Len(xs) |-> Str(PatternText(xs[k]))]

\* the text s occurs in the text t, character for character
OccursIn(s, t) == \E k \in 0..(Len(t) - Len(s)) : SubSeq(t, k + 1, k + Len(s)) = s

\* what the function f returns for the inputs xs
CreatedFrom(f, xs, d, cs, wb) ==
  CASE f = "combine_patterns_any" -> combine_patterns_any(xs, cs, wb)
    [] f = "combine_patterns_all" -> combine_patterns_all(xs, d, cs)
    [] f = "make_optional" -> make_optional(xs[1])

C27_EachTextOnce ==
  /\ \A k \in 1..Len(applied) : applied[k] <= 1
  /\ \A v \in DOMAIN wtask : \A w \in DOMAIN wtask :
       (v # w /\ wtask[v] # 0) => wtask[v] # wtask[w]
  /\ pc = "returned" =>
       /\ Len(results) = Len(texts)
       /\ \A k \in 1..Len(texts) : applied[k] = 1

\* a pool of two workers has counted the matches in two texts
C27_Witness ==
  /\ ParallelDone("returned")
  /\ op = "count_matches"
  /\ Len(wtask) = 2
  /\ Len(results) = 2
  /\ applied = <<1, 1>>

\* C28: the pool of a batch call never outlives the call: it runs only while
\* the caller is inside the with block, and when the call has returned or
\* raised, the pool (if one was created) is terminated, no worker holds a
\* chunk and no chunk is queued.
C28_PoolEndsWithCall ==
  /\ poolState = "running" => pc \in {"starmap", "waiting"}
  /\ pc \in {"returned", "raised"} =>
       /\ poolState \in {"none", "terminated"}
       /\ \A w \in DOMAIN wtask : wtask[w] = 0
       /\ taskq = <<>>
  /\ (pc \in {"returned", "raised"} /\ dispatched # {}) => poolState = "terminated"

\* a call has raised the failure of a worker and its pool of two workers is
\* terminated
C28_Witness ==
  /\ ParallelDone("raised")
  /\ raised = firstFailed
  /\ Len(wtask) = 2
  /\ \A w \in DOMAIN wtask : wtask[w] = 0

\* the call runs, or has run, in the caller without a pool
OnSequentialPath ==
  /\ pc \in {"sequential", "returned", "raised"}
  /\ nw >= 1
  /\ Len(texts) < nw

\* the operation has run once on each of the first k texts and on no other
RanOnFirst(k) ==
  applied = [j \in 1..Len(texts) |-> IF j <= k THEN 1 ELSE 0]

\* C29: on the sequential path the texts are processed in input order, and a
\* failure on texts[i] is raised at once: the operation has run on texts[1..i]
\* and on no later text, the exception is that of texts[i], and the call does
\* not return a list.
C29_SequentialInOrderStopsAtFailure ==
  OnSequentialPath =>
    /\ poolState = "none" /\ dispatched = {}
    /\ pc = "sequential" =>
         /\ RanOnFirst(i - 1)
         /\ Len(results) = i - 1
    /\ pc = "returned" => RanOnFirst(Len(texts)) /\ Len(results) = Len(texts)
    /\ pc = "raised" =>
         /\ raised.at \in 1..Len(texts)
         /\ RanOnFirst(raised.at)
         /\ ~ApplyOp(op, texts[raised.at], pattern).ok
         /\ raised = Error(ApplyOp(op, texts[raised.at], pattern).err, raised.at)
    /\ \A k \in 1..Len(results) : ApplyOp(op, texts[k], pattern) = Ok(results[k])

\* the operation failed on the first of two texts and never ran on the second
C29_Witness ==
  /\ OnSequentialPath
  /\ pc = "raised"
  /\ Len(texts) = 2
  /\ raised.at = 1
  /\ applied = <<1, 0>>

\* a batch call was made with this n_workers and has chosen its path
CalledWithWorkers(k) ==
  /\ pc \notin {"idle", "call"}
  /\ n_workers.given
  /\ n_workers.n = k

\* C30: a batch call with n_workers < 1 never runs sequentially, whatever the
\* texts, the empty list included: it goes to the creation of the pool, which
\* raises ValueError; no pool exists, the operation runs on no text and no
\* list is returned. With n_workers >= 1 and no texts the call returns the
\* empty list from the caller, without a pool.
C30_NoSequentialPathBelowOneWorker ==
  \A k \in -1..(MaxWorkers + 1) :
    CalledWithWorkers(k) =>
      /\ k < 1 =>
           /\ pc \in {"pool", "raised"}
           /\ pc = "raised" => raised = Error("ValueError", 0)
           /\ poolState = "none"
           /\ results = <<>>
           /\ \A j \in 1..Len(texts) : applied[j] = 0
      /\ (k >= 1 /\ texts = <<>>) =>
           /\ pc \in {"sequential", "returned"}
           /\ poolState = "none"
           /\ results = <<>>

\* the call with no texts and n_workers = 0 has raised ValueError
C30_Witness ==
  /\ CalledWithWorkers(0)
  /\ texts = <<>>
  /\ pc = "raised"
  /\ raised = Error("ValueError", 0)
  /\ poolState = "none"
====
